---- MODULE Spec2Model ----
(***************************************************************************)
(* Model of socket_toolbox: the runtime-defined message format             *)
(* (src/src/msg.rs) and the threaded TCP endpoints (src/src/socket.rs).    *)
(*                                                                         *)
(* Representation                                                          *)
(*   byte      : 0..255                                                    *)
(*   u64 / i64 : the 8 bytes of the value, most significant first (what    *)
(*               to_be_bytes returns); an i64 is negative iff its first    *)
(*               byte is >= 128.  Nothing is lost to a narrower integer.   *)
(*   String    : its UTF-8 bytes (a Rust String is a Vec<u8> known to be   *)
(*               valid UTF-8), tagged "String"                             *)
(*   Vec<u8>   : a sequence of bytes, tagged "Bytes"                       *)
(*   indices   : item_idx and len_idx are 0-based as in the source; the    *)
(*               element of a TLA+ sequence at source index i is s[i + 1]  *)
(***************************************************************************)
EXTENDS Integers, Sequences, FiniteSets, TLC

VARIABLES
    item_fmts,      \* MessageFormat.item_fmts
    msg,            \* Message.values handed to encode
    buf,            \* the byte slice handed to decode
    buf_src,        \* "input": buf was supplied; "encoded": buf is encode's output
    last            \* the last codec call and what it returned

codecVars == <<item_fmts, msg, buf, buf_src, last>>

\* One Int field on its own (write_to_buf, read_from_tcp_stream, read_from_buf)
VARIABLES
    int_len,        \* ItemFormat::Int { len }
    int_val,        \* the i64 of ItemValue::Int
    int_out,        \* result of encoding the value
    int_in,         \* result of reading the encoded bytes back from a stream
    int_dec,        \* result of decoding the encoded bytes from a buffer
    ovf_checks      \* is the build one with overflow checks (debug-assertions)

intVars == <<int_len, int_val, int_out, int_in, int_dec, ovf_checks>>

\* A writer's work (MessageFormat::write_to on the messages handed to it)
VARIABLES
    outbox,         \* the messages write_to is called on, in order
    wpos,           \* how many of them it has been called on
    stream          \* the bytes the TcpStream has taken so far

writeVars == <<outbox, wpos, stream>>

\* A reader's work (MessageFormat::read_from on the socket's other end)
VARIABLES
    arrived,        \* how many bytes of stream have reached the reading socket
    taken,          \* how many of them the reader's read calls have taken
    rx_values,      \* read_from's `values`: the fields of the message being read
    inbox           \* the messages read_from has returned, in order

readVars == <<arrived, taken, rx_values, inbox>>

(***************************************************************************)
(* Bounds of the explored inputs.                                          *)
(***************************************************************************)
MaxFields == 2      \* longest schema explored
MaxBufLen == 3      \* longest supplied decode buffer explored
MaxWrites == 2      \* messages handed to one writer

\* std::mem::size_of::<u64>()
SizeOfU64 == 8

Byte == 0..255

Min(a, b) == IF a < b THEN a ELSE b
Max(a, b) == IF a > b THEN a ELSE b

RECURSIVE Rep(_, _)
\* vec![b; n]
Rep(b, n) == IF n <= 0 THEN <<>> ELSE <<b>> \o Rep(b, n - 1)

\* the last n elements of s (&s[s.len() - n..])
LastN(s, n) == SubSeq(s, Len(s) - n + 1, Len(s))

\* the elements of s after the first n (&s[n..])
DropN(s, n) == SubSeq(s, n + 1, Len(s))

(***************************************************************************)
(* ItemValue, ItemFormat, Error                                            *)
(***************************************************************************)
VLen(v)    == [tag |-> "Len", v |-> v]
VUint(v)   == [tag |-> "Uint", v |-> v]
VInt(v)    == [tag |-> "Int", v |-> v]
VString(s) == [tag |-> "String", v |-> s]
VBytes(b)  == [tag |-> "Bytes", v |-> b]

FLen(n)         == [kind |-> "Len", len |-> n]
FUint(n)        == [kind |-> "Uint", len |-> n]
FInt(n)         == [kind |-> "Int", len |-> n]
FFixedString(n) == [kind |-> "FixedString", len |-> n]
FVarString(i)   == [kind |-> "VarString", len_idx |-> i]
FFixedBytes(n)  == [kind |-> "FixedBytes", len |-> n]
FVarBytes(i)    == [kind |-> "VarBytes", len_idx |-> i]

IntegerKinds == {"Len", "Uint", "Int"}
FixedKinds   == {"Len", "Uint", "Int", "FixedString", "FixedBytes"}
VarKinds     == {"VarString", "VarBytes"}
StringKinds  == {"FixedString", "VarString"}
BytesKinds   == {"FixedBytes", "VarBytes"}

NoErr == [err |-> "None"]
MessageFormatEmpty == [err |-> "MessageFormatEmpty"]
Eof == [err |-> "Eof"]
LenTooLarge(max_len, item_idx, len) ==
    [err |-> "LenTooLarge", max_len |-> max_len, item_idx |-> item_idx, len |-> len]
LenTooSmall(min_len, item_idx, len) ==
    [err |-> "LenTooSmall", min_len |-> min_len, item_idx |-> item_idx, len |-> len]
LenIdxTooLarge(item_idx, len_idx) ==
    [err |-> "LenIdxTooLarge", item_idx |-> item_idx, len_idx |-> len_idx]
NotALen(item_idx, len_idx) ==
    [err |-> "NotALen", item_idx |-> item_idx, len_idx |-> len_idx]
ValueLenOutOfBound(specified_len, item_idx, item_len) ==
    [err |-> "ValueLenOutOfBound", specified_len |-> specified_len,
     item_idx |-> item_idx, item_len |-> item_len]
FromUtf8(item_idx) == [err |-> "FromUtf8", item_idx |-> item_idx]

\* Result<T>: Ok(val), Err(e), or a panic that unwinds out of the call
Ok(val)  == [st |-> "Ok", val |-> val, e |-> NoErr]
Err(e)   == [st |-> "Err", val |-> <<>>, e |-> e]
Panic    == [st |-> "Panic", val |-> <<>>, e |-> NoErr]
\* the process aborted inside the call (handle_alloc_error)
Abort    == [st |-> "Abort", val |-> <<>>, e |-> NoErr]
Unset    == [st |-> "Unset", val |-> <<>>, e |-> NoErr]

(***************************************************************************)
(* Integers as 8 big-endian bytes                                          *)
(***************************************************************************)
\* the u64 whose value is the single byte b
U8(b) == Rep(0, 7) \o <<b>>

RECURSIVE BeNat(_)
\* the number whose big-endian form is s
BeNat(s) == IF Len(s) = 0 THEN 0 ELSE BeNat(SubSeq(s, 1, Len(s) - 1)) * 256 + s[Len(s)]

\* the u64 v is 2^31 or more
TooBig(v) == (\E i \in 1..4 : v[i] # 0) \/ v[5] >= 128

\* `v as usize` for a u64 v (line 142): the same number, usize being 64
\* bits.  A number of 2^31 or more is beyond the integers the model checker
\* computes with and stays in its 8-byte form, so that no value is changed;
\* every buffer and every declared width is shorter.
AsUsize(v) == IF TooBig(v) THEN v ELSE BeNat(v)

RECURSIVE NatBe(_, _)
\* the low k bytes of the number n, big-endian
NatBe(n, k) == IF k = 0 THEN <<>> ELSE NatBe(n \div 256, k - 1) \o <<n % 256>>

\* usize::to_be_bytes: the 8-byte form of the number n
BeBytes(n) == NatBe(n, SizeOfU64)

\* n < v for a number n and a length v in 8-byte form (buf.len() < len)
Below(n, v) ==
    \E i \in 1..SizeOfU64 :
        BeBytes(n)[i] < v[i] /\ \A j \in 1..(i - 1) : BeBytes(n)[j] = v[j]

RECURSIVE Carry(_, _, _)
\* the carry of a + b into byte i
Carry(a, b, i) ==
    IF i = SizeOfU64 THEN 0 ELSE (a[i + 1] + b[i + 1] + Carry(a, b, i + 1)) \div 256

\* a + b on 64 bits, and whether the sum does not fit
AddU8(a, b) == [i \in 1..SizeOfU64 |-> (a[i] + b[i] + Carry(a, b, i)) % 256]
AddOverflows(a, b) == a[1] + b[1] + Carry(a, b, 1) >= 256

\* the allocator grants what it is asked for
Granting == TRUE

\* an allocation (vec![0u8; len], Vec::resize) of the 2^31 bytes or more
\* that the u64 v stands for.  Above isize::MAX the capacity check of Vec
\* panics.  Below it the request goes to the allocator: 2^56 bytes or more
\* are beyond the address space of a process and the allocation fails, which
\* aborts the process; a smaller request is granted or refused by the
\* machine (mem), and a granted one is zeroed memory.
Alloc(v, mem) ==
    IF v[1] >= 128 THEN Panic
    ELSE IF v[1] >= 1 \/ ~mem THEN Abort
    ELSE Ok(<<>>)

\* BufMut::put_uint(v, nbytes) and BufMut::put_int(v, nbytes): the low nbytes
\* bytes of the big-endian form
PutUint(v, nbytes) == LastN(v, nbytes)

\* Buf::get_uint(nbytes): the bytes, zero-extended to 64 bits
GetUint(bytes) == Rep(0, SizeOfU64 - Len(bytes)) \o bytes

\* sign extension of an nbytes-wide big-endian two's-complement integer, as
\* the bytes crate does it: (val << shift) as i64 >> shift with
\* shift = (8 - nbytes) * 8.  With no bytes the shift is by 64: a build with
\* overflow checks panics, one without shifts by 64 mod 64 = 0.
SignExtend(bytes, ovf) ==
    IF Len(bytes) = 0 THEN (IF ovf THEN Panic ELSE Ok(Rep(0, SizeOfU64)))
    ELSE IF bytes[1] >= 128
    THEN Ok(Rep(255, SizeOfU64 - Len(bytes)) \o bytes)
    ELSE Ok(Rep(0, SizeOfU64 - Len(bytes)) \o bytes)

\* Buf::get_int(nbytes): sign_extend(self.get_uint(nbytes), nbytes); `ovf`
\* says whether the build checks for overflow.
GetInt(bytes, ovf) == SignExtend(bytes, ovf)

(***************************************************************************)
(* String::from_utf8                                                       *)
(***************************************************************************)
IsCont(b) == b >= 128 /\ b <= 191

RECURSIVE ValidUtf8(_)
ValidUtf8(s) ==
    IF Len(s) = 0 THEN TRUE
    ELSE LET b == s[1] n == Len(s) IN
      IF b <= 127 THEN ValidUtf8(DropN(s, 1))
      ELSE IF b >= 194 /\ b <= 223
        THEN n >= 2 /\ IsCont(s[2]) /\ ValidUtf8(DropN(s, 2))
      ELSE IF b >= 224 /\ b <= 239
        THEN /\ n >= 3
             /\ IsCont(s[2]) /\ IsCont(s[3])
             /\ (b = 224 => s[2] >= 160)
             /\ (b = 237 => s[2] <= 159)
             /\ ValidUtf8(DropN(s, 3))
      ELSE IF b >= 240 /\ b <= 244
        THEN /\ n >= 4
             /\ IsCont(s[2]) /\ IsCont(s[3]) /\ IsCont(s[4])
             /\ (b = 240 => s[2] >= 144)
             /\ (b = 244 => s[2] <= 143)
             /\ ValidUtf8(DropN(s, 4))
      ELSE FALSE

(***************************************************************************)
(* ItemFormat                                                              *)
(***************************************************************************)
\* a faulty variant: any integer kind is taken for a length
ItemErr_AnyInteger(self, idx, fmts) ==
    IF self.kind \in FixedKinds
    THEN IF self.kind \in IntegerKinds /\ self.len > SizeOfU64
         THEN LenTooLarge(SizeOfU64, idx, self.len)
         ELSE NoErr
    ELSE IF self.len_idx > idx
         THEN LenIdxTooLarge(idx, self.len_idx)
         ELSE IF fmts[self.len_idx + 1].kind \in IntegerKinds
              THEN NoErr
              ELSE NotALen(idx, self.len_idx)

\* ItemFormat::err.  max_len is size_of::<u64>() for Len/Uint/Int and
\* usize::MAX for the other kinds, for which `len > max_len` cannot hold.
ItemErr(self, idx, fmts) ==
    IF self.kind \in FixedKinds
    THEN IF self.kind \in IntegerKinds /\ self.len > SizeOfU64
         THEN LenTooLarge(SizeOfU64, idx, self.len)
         ELSE NoErr
    ELSE IF self.len_idx > idx
         THEN LenIdxTooLarge(idx, self.len_idx)
         ELSE IF fmts[self.len_idx + 1].kind = "Len"
              THEN NoErr
              ELSE NotALen(idx, self.len_idx)

\* ItemFormat::len_by_idx: panics when the value is absent or not a Len
LenByIdx(len_idx, values) ==
    IF len_idx < Len(values)
    THEN IF values[len_idx + 1].tag = "Len"
         THEN Ok(AsUsize(values[len_idx + 1].v))
         ELSE Panic
    ELSE Panic

\* ItemFormat::len
ItemLen(self, idx, fmts, values) ==
    LET e == ItemErr(self, idx, fmts) IN
    IF e # NoErr THEN Err(e)
    ELSE IF self.kind \in FixedKinds THEN Ok(self.len)
    ELSE LenByIdx(self.len_idx, values)

\* the length ItemFormat::len returned for the field is one of 2^31 or more
BigLen(self, values) == self.kind \in VarKinds /\ TooBig(values[self.len_idx + 1].v)

\* ReadError
RdEof == [rerr |-> "Eof"]
RdFromUtf8 == [rerr |-> "FromUtf8"]

\* ItemFormat::read_from_buf; the caller's slice advances by len on Ok.
\* get_uint / get_int panic when asked for more than 8 bytes.
ReadFromBuf(self, len, b, ovf) ==
    IF Len(b) < len THEN Err(RdEof)
    ELSE LET bytes == SubSeq(b, 1, len) IN
      IF self.kind \in IntegerKinds
      THEN IF len > SizeOfU64 THEN Panic
           ELSE IF self.kind = "Len" THEN Ok(VLen(GetUint(bytes)))
           ELSE IF self.kind = "Uint" THEN Ok(VUint(GetUint(bytes)))
           ELSE LET v == GetInt(bytes, ovf) IN
                IF v.st = "Ok" THEN Ok(VInt(v.val)) ELSE v
      ELSE IF self.kind \in StringKinds
      THEN IF ValidUtf8(bytes) THEN Ok(VString(bytes)) ELSE Err(RdFromUtf8)
      ELSE Ok(VBytes(bytes))

\* WriteError
WrLenTooLarge(max_len, len) == [werr |-> "LenTooLarge", max_len |-> max_len, len |-> len]
WrValueLenOutOfBound(specified_len, item_len) ==
    [werr |-> "ValueLenOutOfBound", specified_len |-> specified_len, item_len |-> item_len]

\* WriteError::global_error
GlobalError(e, item_idx) ==
    IF e.werr = "LenTooLarge"
    THEN LenTooLarge(e.max_len, item_idx, e.len)
    ELSE ValueLenOutOfBound(e.specified_len, item_idx, e.item_len)

\* does the (format, value) pair match one arm of write_to_buf's final match
KindMatches(self, value) ==
    \/ self.kind = "Len" /\ value.tag = "Len"
    \/ self.kind = "Uint" /\ value.tag = "Uint"
    \/ self.kind = "Int" /\ value.tag = "Int"
    \/ self.kind \in StringKinds /\ value.tag = "String"
    \/ self.kind \in BytesKinds /\ value.tag = "Bytes"

\* a faulty variant: the slot is not filled up to len: a short value stays short
WriteToBuf_NoPad(self, len, value) ==
    LET isInt   == value.tag \in {"Len", "Uint", "Int"}
        min_len == IF isInt THEN 0 ELSE Len(value.v)
    IN
    IF isInt /\ len > SizeOfU64 THEN Err(WrLenTooLarge(SizeOfU64, len))
    ELSE IF len < min_len THEN Err(WrValueLenOutOfBound(len, min_len))
    ELSE IF ~KindMatches(self, value) THEN Panic
    ELSE IF isInt THEN Ok(PutUint(value.v, len))
    ELSE Ok(value.v)

\* a faulty variant: no min_len check: a value longer than len is cut to len
WriteToBuf_Cutting(self, len, value) ==
    LET isInt == value.tag \in {"Len", "Uint", "Int"} IN
    IF isInt /\ len > SizeOfU64 THEN Err(WrLenTooLarge(SizeOfU64, len))
    ELSE IF ~KindMatches(self, value) THEN Panic
    ELSE IF isInt THEN Ok(PutUint(value.v, len))
    ELSE Ok(SubSeq(value.v \o Rep(0, len), 1, len))

\* ItemFormat::write_to_buf.  The slice it is given is len zero bytes (the
\* caller's buf.resize(.., 0)); Ok carries the slice as left by the write.
WriteToBuf(self, len, value) ==
    LET isInt   == value.tag \in {"Len", "Uint", "Int"}
        min_len == IF isInt THEN 0 ELSE Len(value.v)
    IN
    IF isInt /\ len > SizeOfU64 THEN Err(WrLenTooLarge(SizeOfU64, len))
    ELSE IF len < min_len THEN Err(WrValueLenOutOfBound(len, min_len))
    ELSE IF ~KindMatches(self, value) THEN Panic
    ELSE IF isInt THEN Ok(PutUint(value.v, len))
    ELSE Ok(value.v \o Rep(0, len - Len(value.v)))

(***************************************************************************)
(* MessageFormat                                                           *)
(***************************************************************************)
\* a faulty variant: the loop runs to the end and keeps the last error it met
ErrFrom_Last(fmts, idx) ==
    LET bad == {i \in idx..(Len(fmts) - 1) : ItemErr(fmts[i + 1], i, fmts) # NoErr} IN
    IF bad = {} THEN NoErr
    ELSE LET i == CHOOSE m \in bad : \A n \in bad : n <= m IN
         ItemErr(fmts[i + 1], i, fmts)

RECURSIVE ErrFrom(_, _)
\* the loop of MessageFormat::err from item index idx on
ErrFrom(fmts, idx) ==
    IF idx >= Len(fmts) THEN NoErr
    ELSE LET e == ItemErr(fmts[idx + 1], idx, fmts) IN
         IF e # NoErr THEN e ELSE ErrFrom(fmts, idx + 1)

\* MessageFormat::err (NoErr is None)
MessageFormatErr(fmts) ==
    IF Len(fmts) = 0 THEN MessageFormatEmpty ELSE ErrFrom(fmts, 0)

RECURSIVE DecodeFrom(_, _, _, _, _, _)
\* the loop of MessageFormat::decode from item index idx on.  A length of
\* 2^31 or more comes in its 8-byte form and is compared as such with what
\* the slice holds (read_from_buf, line 167); when the slice holds that
\* much, read_from_buf allocates a vector of that length for the string or
\* the bytes (lines 176 and 184).
DecodeFrom(fmts, idx, values, slice, ovf, mem) ==
    IF idx >= Len(fmts) THEN Ok(values)
    ELSE LET item_fmt == fmts[idx + 1]
             l == ItemLen(item_fmt, idx, fmts, values)
         IN
         IF l.st # "Ok" THEN l
         ELSE IF BigLen(item_fmt, values) /\ Below(Len(slice), l.val) THEN Err(Eof)
         ELSE IF BigLen(item_fmt, values) /\ Alloc(l.val, mem).st # "Ok"
         THEN Alloc(l.val, mem)
         ELSE LET len == IF BigLen(item_fmt, values) THEN BeNat(l.val) ELSE l.val
                  r == ReadFromBuf(item_fmt, len, slice, ovf) IN
              IF r.st = "Ok"
              THEN DecodeFrom(fmts, idx + 1, Append(values, r.val),
                              DropN(slice, len), ovf, mem)
              ELSE IF r.st = "Panic" THEN Panic
              ELSE IF r.e = RdEof THEN Err(Eof)
              ELSE Err(FromUtf8(idx))

\* MessageFormat::decode
Decode(fmts, b, ovf, mem) == DecodeFrom(fmts, 0, <<>>, b, ovf, mem)

\* A buffer of 2^31 bytes or more, as encode builds it: a sequence of
\* pieces, each the bytes head, then the bytes value zero-filled to the
\* length len (8-byte form, 2^31 or more); the last piece may be a head
\* alone (value empty, len zero).
Piece(head, value, len) == [head |-> head, value |-> value, len |-> len]

RECURSIVE LongLen(_)
\* the length of such a buffer, in 8-byte form
LongLen(long) ==
    IF long = <<>> THEN BeBytes(0)
    ELSE AddU8(AddU8(BeBytes(Len(long[1].head)), long[1].len), LongLen(Tail(long)))

RECURSIVE FirstN(_, _)
\* the first n bytes of such a buffer
FirstN(long, n) ==
    IF long = <<>> \/ n = 0 THEN <<>>
    ELSE LET p == long[1]
             held == p.head \o p.value
         IN
         IF n <= Len(held) THEN SubSeq(held, 1, n)
         ELSE IF ~Below(n - Len(p.head), p.len) /\ BeBytes(n - Len(p.head)) # p.len
              THEN held \o Rep(0, BeNat(p.len) - Len(p.value))
                   \o FirstN(Tail(long), n - Len(p.head) - BeNat(p.len))
              ELSE held \o Rep(0, n - Len(held))

\* write_to_buf on a slice of 2^31 zero bytes or more (len in 8-byte form):
\* an integer is wider than 8 bytes (max_len), a string or byte value is
\* shorter than the slice (min_len) and leaves the rest of it zero
WriteToLong(self, len, value) ==
    IF value.tag \in {"Len", "Uint", "Int"} THEN Err(WrLenTooLarge(SizeOfU64, len))
    ELSE IF ~KindMatches(self, value) THEN Panic
    ELSE Ok(value.v)

RECURSIVE EncodeFrom(_, _, _, _, _, _)
\* the loop of MessageFormat::encode from item index idx on; zip stops at
\* the shorter of item_fmts and msg.values.  buf is long \o out: out, the
\* bytes at its end, and long, the pieces before them once a field of 2^31
\* bytes or more has been written.  buf.resize (line 337) allocates the
\* field before write_to_buf looks at the value.
EncodeFrom(fmts, values, idx, long, out, mem) ==
    IF idx >= Min(Len(fmts), Len(values))
    THEN IF long = <<>> THEN Ok(out)
         ELSE Ok(IF out = <<>> THEN long ELSE Append(long, Piece(out, <<>>, BeBytes(0))))
    ELSE LET item_fmt == fmts[idx + 1]
             l == ItemLen(item_fmt, idx, fmts, values)
             big == BigLen(item_fmt, values)
             buf_len == AddU8(LongLen(long), BeBytes(Len(out)))
             value_len == IF big THEN l.val ELSE BeBytes(l.val)
             a == IF AddOverflows(buf_len, value_len) THEN Panic
                  ELSE Alloc(AddU8(buf_len, value_len), mem)
         IN
         IF l.st # "Ok" THEN l
         ELSE IF (big \/ long # <<>>) /\ a.st # "Ok" THEN a
         ELSE IF big
         THEN LET w == WriteToLong(item_fmt, l.val, values[idx + 1]) IN
              IF w.st = "Ok"
              THEN EncodeFrom(fmts, values, idx + 1,
                              Append(long, Piece(out, w.val, l.val)), <<>>, mem)
              ELSE IF w.st = "Panic" THEN Panic
              ELSE Err(GlobalError(w.e, idx))
         ELSE LET w == WriteToBuf(item_fmt, l.val, values[idx + 1]) IN
              IF w.st = "Ok"
              THEN EncodeFrom(fmts, values, idx + 1, long, out \o w.val, mem)
              ELSE IF w.st = "Panic" THEN Panic
              ELSE Err(GlobalError(w.e, idx))

\* MessageFormat::encode
Encode(fmts, values, mem) == EncodeFrom(fmts, values, 0, <<>>, <<>>, mem)

\* the message has a field of 2^31 bytes or more among those encode writes
LongMsg(fmts, values) ==
    \E i \in 1..Min(Len(fmts), Len(values)) :
        /\ fmts[i].kind \in VarKinds /\ fmts[i].len_idx < Len(values)
        /\ values[fmts[i].len_idx + 1].tag = "Len"
        /\ TooBig(values[fmts[i].len_idx + 1].v)

\* std::io::Error through Error::Io
IoError == [err |-> "Io"]

\* a faulty variant: each field is written to the stream as it is encoded
WriteTo_FieldByField(fmts, values, s, n, mem) ==
    LET r == Encode(fmts, values, mem)
        j == CHOOSE i \in 0..Len(values) :
                /\ Encode(fmts, SubSeq(values, 1, i), mem).st = "Ok"
                /\ \A l \in 0..Len(values) :
                      Encode(fmts, SubSeq(values, 1, l), mem).st = "Ok" => l <= i IN
    IF r.st # "Ok" THEN [res |-> r, stream |-> s \o Encode(fmts, SubSeq(values, 1, j), mem).val]
    ELSE IF n >= Len(r.val) THEN [res |-> Ok(<<>>), stream |-> s \o r.val]
    ELSE [res |-> Err(IoError), stream |-> s \o SubSeq(r.val, 1, n)]

\* MessageFormat::write_to on a stream that has taken the bytes s; the
\* socket takes n more bytes before write_all fails, and write_all succeeds
\* when that is all of them.  Gives the result and the bytes taken.
WriteTo(fmts, values, s, n, mem) ==
    LET r == Encode(fmts, values, mem) IN
    IF r.st # "Ok" THEN [res |-> r, stream |-> s]
    ELSE IF LongMsg(fmts, values)
    THEN IF Below(n, LongLen(r.val))
         THEN [res |-> Err(IoError), stream |-> s \o FirstN(r.val, n)]
         ELSE [res |-> Ok(<<>>), stream |-> s \o FirstN(r.val, BeNat(LongLen(r.val)))]
    ELSE IF n >= Len(r.val) THEN [res |-> Ok(<<>>), stream |-> s \o r.val]
    ELSE [res |-> Err(IoError), stream |-> s \o SubSeq(r.val, 1, n)]

\* v << (8 * nbytes) on 64 bits
Shl(v, nbytes) == DropN(v, nbytes) \o Rep(0, nbytes)

\* a faulty variant: a logical shift: zeros fill the vacated bytes
Sar_Logical(v, nbytes) == Rep(0, nbytes) \o SubSeq(v, 1, SizeOfU64 - nbytes)

\* v >> (8 * nbytes) on an i64: the sign bit fills the vacated bytes
Sar(v, nbytes) ==
    Rep(IF v[1] >= 128 THEN 255 ELSE 0, nbytes) \o SubSeq(v, 1, SizeOfU64 - nbytes)

\* ItemFormat::read_from_tcp_stream over a stream that delivers the bytes s
\* and is then closed by the peer.  Ok carries the value; Consumed says how
\* many bytes the read took.  With len = 0 or len > 8 the shift amount
\* (8 - len) * 8 is out of range: a build with overflow checks panics, one
\* without shifts by the amount modulo 64.
Consumed(self, len) ==
    IF self.kind \in IntegerKinds THEN Min(len, SizeOfU64) ELSE len

ReadFromTcpStream(self, len, s, ovf) ==
    IF Len(s) < Consumed(self, len) THEN Err(RdEof)
    ELSE LET bytes == SubSeq(s, 1, Consumed(self, len))
             integer_buf == Rep(0, SizeOfU64 - Len(bytes)) \o bytes
             nb == (SizeOfU64 - len) % SizeOfU64
         IN
         IF self.kind = "Len" THEN Ok(VLen(integer_buf))
         ELSE IF self.kind = "Uint" THEN Ok(VUint(integer_buf))
         ELSE IF self.kind = "Int"
              THEN IF ovf /\ (len = 0 \/ len > SizeOfU64) THEN Panic
                   ELSE Ok(VInt(Sar(Shl(integer_buf, nb), nb)))
         ELSE IF self.kind \in StringKinds
              THEN IF ValidUtf8(bytes) THEN Ok(VString(bytes)) ELSE Err(RdFromUtf8)
         ELSE Ok(VBytes(bytes))

RECURSIVE ReadFromLoop(_, _, _, _, _, _)
\* the loop of MessageFormat::read_from from item index idx on.  For a
\* length of 2^31 or more read_from_tcp_stream allocates its vector (line
\* 240) and read_exact then meets the end of a stream that holds less.
ReadFromLoop(fmts, idx, values, s, ovf, mem) ==
    IF idx >= Len(fmts) THEN Ok(values)
    ELSE LET item_fmt == fmts[idx + 1]
             l == ItemLen(item_fmt, idx, fmts, values)
         IN
         IF l.st # "Ok" THEN l
         ELSE IF BigLen(item_fmt, values) /\ Alloc(l.val, mem).st # "Ok"
         THEN Alloc(l.val, mem)
         ELSE IF BigLen(item_fmt, values) /\ Below(Len(s), l.val) THEN Err(Eof)
         ELSE LET len == IF BigLen(item_fmt, values) THEN BeNat(l.val) ELSE l.val
                  r == ReadFromTcpStream(item_fmt, len, s, ovf) IN
              IF r.st = "Ok"
              THEN ReadFromLoop(fmts, idx + 1, Append(values, r.val),
                                DropN(s, Consumed(item_fmt, len)), ovf, mem)
              ELSE IF r.st = "Panic" THEN Panic
              ELSE IF r.e = RdEof THEN Err(Eof)
              ELSE Err(FromUtf8(idx))

\* MessageFormat::read_from, the stream delivering s and then closing
ReadFrom(fmts, s, ovf, mem) == ReadFromLoop(fmts, 0, <<>>, s, ovf, mem)

(***************************************************************************)
(* Explored inputs                                                         *)
(***************************************************************************)
\* declared widths: none, one byte, several bytes, one more than a u64 holds
Widths == {0, 1, 2, 9}

ItemFormats ==
    {[kind |-> k, len |-> n] : k \in FixedKinds, n \in Widths}
    \cup {[kind |-> k, len_idx |-> i] : k \in VarKinds, i \in 0..(MaxFields - 1)}

SeqsUpTo(S, n) == UNION {[1..k -> S] : k \in 0..n}

Schemas == SeqsUpTo(ItemFormats, MaxFields)

AllFF == Rep(255, 8)

LenSamples    == {U8(0), U8(1), U8(2)}
UintSamples   == {U8(0), U8(255), Rep(0, 6) \o <<1, 2>>}
IntSamples    == {U8(1), U8(128), AllFF, Rep(255, 6) \o <<128, 0>>}
StringSamples == {<<>>, <<65>>, <<65, 66>>, <<195, 169>>}
BytesSamples  == {<<>>, <<255>>, <<0, 255>>}

\* the values tried at a field: those of the field's kind and one of another
ValuesFor(f) ==
    IF f.kind = "Len" THEN {VLen(v) : v \in LenSamples} \cup {VUint(U8(1))}
    ELSE IF f.kind = "Uint" THEN {VUint(v) : v \in UintSamples} \cup {VString(<<65>>)}
    ELSE IF f.kind = "Int" THEN {VInt(v) : v \in IntSamples} \cup {VString(<<65, 66>>)}
    ELSE IF f.kind \in StringKinds
         THEN {VString(s) : s \in StringSamples} \cup {VBytes(<<65>>)}
    ELSE {VBytes(b) : b \in BytesSamples} \cup {VInt(U8(1))}

\* messages of at most as many values as the schema has fields
MessagesFor(fmts) ==
    {m \in UNION {[1..k -> UNION {ValuesFor(fmts[i]) : i \in 1..Len(fmts)}] : k \in 0..Len(fmts)} :
        \A i \in 1..Len(m) : m[i] \in ValuesFor(fmts[i])}

BufBytes == {1, 65, 255}

\* the schema and the message of tests::encode_and_decode_ok
TestFmt == <<FLen(2), FUint(2), FInt(1), FFixedString(8), FVarString(0)>>
TestMsg == <<VLen(U8(16)), VUint(Rep(0, 6) \o <<9, 29>>), VInt(U8(127)),
             VString(<<97, 97, 97, 97, 98, 98, 98, 98>>),
             VString(<<97, 97, 97, 97, 98, 98, 98, 98, 99, 99, 99, 99, 100, 100, 100, 100>>)>>

Buffers == SeqsUpTo(BufBytes, MaxBufLen)

(***************************************************************************)
(* Endpoints (src/src/socket.rs): one Server, one Client that connects to  *)
(* it, and the threads they start.  A connection is numbered by the        *)
(* Client::run that made it.  Socket addresses are numbers as well: the    *)
(* local address of the client's socket is the one Client::run asked for   *)
(* or, when it asked for none, one the system picks; accept() hands the    *)
(* server that address as the peer's (the source address of the TCP        *)
(* connection, no address translation between the two ends).  A server run *)
(* is numbered too; the number stands for the accept thread and its        *)
(* listening address.  0 is None.                                          *)
(***************************************************************************)
VARIABLES
    s_stop_flag,    \* Server.stop_flag
    s_listen_addr,  \* Server.listen_addr
    s_tx_map,       \* Server.tx_map: peer address -> the connection whose
                    \* Sender is registered under it
    s_handle,       \* Server.handle: the accept thread held
    s_stopping,     \* the handle Server::stop took
    s_runs,         \* number of successful Server::run calls
    acc,            \* accept threads, by server run
    c_stop_flag,    \* Client.stop_flag
    c_bind_addr,    \* Client.bind_addr
    c_tx,           \* Client.tx: the connection whose Sender is held
    c_reader_handle,
    c_writer_handle,
    call,           \* where the thread that calls the endpoints is
    ret,            \* what the call that returned in the last step returned
    c_stopping,     \* the handles Client::stop took
    conn,           \* connections and their reader and writer threads
    nconn,          \* number of connections made
    accepted_nonblocking,   \* do accepted sockets inherit the listener's
                            \* non-blocking mode (they do on Windows and BSD,
                            \* not on Linux)
    lim             \* how far a behaviour is explored: runs, connections,
                    \* queue depth, messages sent; fixed from the start

sockVars == <<s_stop_flag, s_listen_addr, s_tx_map, s_handle, s_stopping, s_runs,
              acc, c_stop_flag, c_bind_addr, c_tx, c_reader_handle, c_writer_handle,
              c_stopping, call, ret, conn, nconn, accepted_nonblocking, lim>>

vars == <<codecVars, intVars, writeVars, readVars, sockVars>>

MaxRuns  == 2       \* successful Server::run calls explored
MaxConns == 3       \* connections a run of the program makes (Client::run calls that connect)
SockConns == 2      \* of which explored together with two server runs
MaxQueue == 1       \* messages a send queue or a socket buffer holds

\* messages as the transport sees them: one that encodes, one for which
\* encode returns an error, and one on which encode panics (a value of
\* another kind than its field, msg.rs:225)
SockMsgs == {"m", "unencodable"}
PanicMsgs == {"m", "unwinding"}

\* a single run with a single connection is explored with deeper queues and,
\* from the server to the client, with two messages that encode
FlowRuns  == 1
FlowConns == 1
FlowQueue == 2
FlowMsgs  == {"m", "n", "unencodable"}

\* decode: does MessageDecoder::decode return ("returns"), or does it panic
\* at an Int field of width 0 or above 8 in a build that checks overflow
\* (msg.rs:271-272, "unwinds"); rebind: does Client::run bind an address it
\* was bound to before; fds: is a descriptor left where Client::run makes
\* its socket (line 216) and duplicates it (lines 239 and 261) and where
\* the accept thread duplicates a stream (lines 95 and 123)
SockLimits == [runs |-> MaxRuns, conns |-> SockConns, queue |-> MaxQueue,
               server_msgs |-> SockMsgs, client_msgs |-> SockMsgs,
               decode |-> "returns", rebind |-> FALSE, fds |-> TRUE]
FlowLimits == [runs |-> FlowRuns, conns |-> FlowConns, queue |-> FlowQueue,
               server_msgs |-> FlowMsgs, client_msgs |-> SockMsgs,
               decode |-> "returns", rebind |-> FALSE, fds |-> TRUE]

\* the same envelope with a schema and a build whose decode panics, the
\* messages sent being one that encodes and one on which encode panics
Unwinding(l) == [l EXCEPT !.decode = "unwinds",
                          !.server_msgs = PanicMsgs, !.client_msgs = PanicMsgs]

\* the same envelope in a process that runs out of descriptors
Starved(l) == [l EXCEPT !.fds = FALSE]

\* an envelope, and a smaller one for threads that panic
WithFaults(l, small) == {l, Starved(small), Unwinding(small)}

\* failures of Client::run past its connect are explored over one server run
FailRuns == 1
FailLimits == [SockLimits EXCEPT !.runs = FailRuns]

\* a run after a stop after a run that failed: one server run, three
\* connections, one kind of message
RerunLimits == [runs |-> FailRuns, conns |-> MaxConns, queue |-> MaxQueue,
                server_msgs |-> {"m"}, client_msgs |-> {"m"},
                decode |-> "returns", rebind |-> FALSE, fds |-> TRUE]

\* whether stop returns is explored over one run and one connection
LiveLimits == [runs |-> FlowRuns, conns |-> FlowConns, queue |-> MaxQueue,
               server_msgs |-> SockMsgs, client_msgs |-> SockMsgs,
               decode |-> "returns", rebind |-> FALSE, fds |-> TRUE]

\* MessageFormat::encode succeeds on the message
Encodes(m) == m \notin {"unencodable", "unwinding"}

\* MessageFormat::encode panics on the message
Unwinds(m) == m = "unwinding"

\* no call returned in the step that led here
NoRet  == [of |-> "none", op |-> "none", r |-> "none"]
NoAcc  == [pc |-> "none", readers |-> {}, writers |-> {}, cur |-> 0]
NoConn == [st |-> "none", lis |-> 0, addr |-> 0, held |-> FALSE,
           srd |-> "none", swr |-> "none", crd |-> "none", cwr |-> "none",
           sq |-> <<>>, sq_tx |-> FALSE, cq |-> <<>>, cq_tx |-> FALSE,
           c2s |-> <<>>, s2c |-> <<>>]

\* the listening socket lives as long as the accept thread that owns it
Listening(g) == acc[g].pc \in {"top", "reg", "locked", "join"}

\* some handle to the client's end of connection k is open
ClientSideOpen(k) == conn[k].crd \in {"top", "reading"} \/ conn[k].cwr = "run"

\* some handle to the server's end of connection k is open (an unaccepted
\* connection sits in the backlog of its listener)
ServerSideOpen(k) ==
    \/ conn[k].st = "pending" /\ Listening(conn[k].lis)
    \/ conn[k].st = "accepted"
        /\ (conn[k].held \/ conn[k].srd \in {"top", "reading"} \/ conn[k].swr = "run")

\* the map with no entry
NoTx == [a \in {} |-> 0]

\* the connections whose Sender is in the map
Registered == {s_tx_map[a] : a \in DOMAIN s_tx_map}

\* a thread that has ended, by returning or by unwinding
Ended == {"done", "panic"}

SockInit ==
    /\ s_stop_flag = FALSE /\ s_listen_addr = 0 /\ s_tx_map = NoTx /\ s_handle = 0
    /\ s_stopping = 0
    /\ s_runs = 0
    /\ acc = [g \in 1..MaxRuns |-> NoAcc]
    /\ c_stop_flag = FALSE /\ c_bind_addr = 0 /\ c_tx = 0
    /\ c_reader_handle = 0 /\ c_writer_handle = 0
    /\ c_stopping = <<0, 0>>
    /\ call = "idle" /\ ret = NoRet
    /\ conn = [k \in 1..MaxConns |-> NoConn]
    /\ nconn = 0

srvVars == <<s_stop_flag, s_listen_addr, s_tx_map, s_handle, s_stopping, s_runs>>
cliVars == <<c_stop_flag, c_bind_addr, c_tx, c_reader_handle, c_writer_handle,
             c_stopping>>
callVars == <<call, ret>>

\* what no endpoint action changes
SockFrame == UNCHANGED <<codecVars, intVars, writeVars, readVars, accepted_nonblocking, lim>>

(***************************************************************************)
(* The calls.  One thread calls both endpoints (the UI thread of           *)
(* ui/app.rs, the test thread of tests::send_msg_ok); it runs an endpoint  *)
(* only when it is not running (a run that failed may be followed by       *)
(* another run).  A panic on that thread ends the program.                 *)
(***************************************************************************)
\* the program runs until the calling thread panics
Alive == call # "panicked"

SRet(op, r) == [of |-> "server", op |-> op, r |-> r]
CRet(op, r) == [of |-> "client", op |-> op, r |-> r]

\* Server::run returning Err before it changed anything (lines 53-63)
ServerRunFail(e) ==
    /\ call = "idle" /\ s_handle = 0
    /\ ret' = SRet("run", e)
    /\ UNCHANGED <<srvVars, cliVars, call, acc, conn, nconn>>
    /\ SockFrame

\* Server::run returning Ok (lines 65-153)
ServerRun ==
    /\ call = "idle" /\ s_handle = 0
    /\ s_runs < lim.runs
    /\ s_runs' = s_runs + 1
    /\ s_stop_flag' = FALSE
    /\ s_listen_addr' = s_runs'
    /\ acc' = [acc EXCEPT ![s_runs'] = [NoAcc EXCEPT !.pc = "top"]]
    /\ s_handle' = s_runs'
    /\ ret' = SRet("run", "Ok")
    /\ UNCHANGED <<s_tx_map, s_stopping, cliVars, call, conn, nconn>>
    /\ SockFrame

\* Server::run panicking at socket.try_clone().unwrap() (line 73), after the
\* flag and the address were set; the listening socket goes with the unwind
ServerRunPanic ==
    /\ call = "idle" /\ s_handle = 0
    /\ s_runs < lim.runs
    /\ s_stop_flag' = FALSE
    /\ s_listen_addr' = s_runs + 1
    /\ call' = "panicked"
    /\ ret' = SRet("run", "Panic")
    /\ UNCHANGED <<s_tx_map, s_handle, s_stopping, s_runs, cliVars, acc, conn, nconn>>
    /\ SockFrame

\* a faulty variant: stop sets the flag and forgets the address before it
\* looks for the handle
ServerStopIdle_FlagFirst ==
    /\ call = "idle" /\ s_handle = 0
    /\ s_stop_flag' = TRUE
    /\ s_listen_addr' = 0
    /\ call' = "panicked"
    /\ ret' = SRet("stop", "Panic")
    /\ UNCHANGED <<s_tx_map, s_handle, s_stopping, s_runs, cliVars, acc, conn, nconn>>
    /\ SockFrame

\* Server::stop with no handle: panic!() (line 166)
ServerStopIdle ==
    /\ call = "idle" /\ s_handle = 0
    /\ call' = "panicked"
    /\ ret' = SRet("stop", "Panic")
    /\ UNCHANGED <<srvVars, cliVars, acc, conn, nconn>>
    /\ SockFrame

\* Server::stop, lines 157-159: take the handle, set the flag, forget the address
ServerStopBegin ==
    /\ call = "idle" /\ s_handle # 0
    /\ s_stopping' = s_handle
    /\ s_handle' = 0
    /\ s_stop_flag' = TRUE
    /\ s_listen_addr' = 0
    /\ call' = "server_stop_clear"
    /\ UNCHANGED <<s_tx_map, s_runs, acc, cliVars, conn, nconn>>
    /\ ret' = NoRet
    /\ SockFrame

\* Server::stop, lines 160-163: clear the map under the lock; every Sender
\* in it is dropped
ServerStopClear ==
    /\ call = "server_stop_clear"
    /\ s_tx_map' = NoTx
    /\ conn' = [k \in 1..MaxConns |->
                  IF k \in Registered THEN [conn[k] EXCEPT !.sq_tx = FALSE] ELSE conn[k]]
    /\ call' = "server_stop_join"
    /\ UNCHANGED <<s_stop_flag, s_listen_addr, s_handle, s_stopping, s_runs,
                   acc, cliVars, nconn>>
    /\ ret' = NoRet
    /\ SockFrame

\* Server::stop, line 164: handle.join().unwrap() returns once the accept
\* thread has ended, and panics if that thread panicked
ServerStopJoin ==
    /\ call = "server_stop_join"
    /\ acc[s_stopping].pc \in {"done", "panic"}
    /\ IF acc[s_stopping].pc = "done"
       THEN call' = "idle" /\ ret' = SRet("stop", "Ok")
       ELSE call' = "panicked" /\ ret' = SRet("stop", "Panic")
    /\ UNCHANGED <<srvVars, cliVars, acc, conn, nconn>>
    /\ SockFrame

\* Server::send_msg (lines 170-180) to the peer address addr; tx.send fails,
\* and unwrap panics, when the writer thread holding the Receiver has ended
ServerSendMsg(addr, m) ==
    /\ call = "idle"
    /\ IF addr \in DOMAIN s_tx_map
       THEN LET k == s_tx_map[addr] IN
            IF conn[k].swr = "run"
            THEN /\ Len(conn[k].sq) < lim.queue
                 /\ conn' = [conn EXCEPT ![k].sq = Append(@, m)]
                 /\ ret' = SRet("send_msg", "Ok")
                 /\ call' = call
            ELSE /\ call' = "panicked"
                 /\ ret' = SRet("send_msg", "Panic")
                 /\ conn' = conn
       ELSE /\ ret' = SRet("send_msg", "NoSuchClient")
            /\ UNCHANGED <<call, conn>>
    /\ UNCHANGED <<srvVars, cliVars, acc, nconn>>
    /\ SockFrame

(***************************************************************************)
(* The accept thread of server run g (lines 78-151)                        *)
(***************************************************************************)
\* lines 79: the flag is set, go and join
AcceptSeesStop(g) ==
    /\ Alive
    /\ acc[g].pc = "top" /\ s_stop_flag
    /\ acc' = [acc EXCEPT ![g].pc = "join"]
    /\ UNCHANGED <<srvVars, cliVars, call, conn, nconn>>
    /\ ret' = NoRet
    /\ SockFrame

\* lines 89-134: accept() returns connection k; spawn its reader and writer
Accept(g, k) ==
    /\ Alive
    /\ acc[g].pc = "top" /\ ~s_stop_flag
    /\ conn[k].st = "pending" /\ conn[k].lis = g
    /\ \A j \in 1..(k - 1) : ~(conn[j].st = "pending" /\ conn[j].lis = g)
    /\ conn' = [conn EXCEPT ![k].st = "accepted", ![k].held = TRUE,
                            ![k].srd = "top", ![k].swr = "run", ![k].sq_tx = TRUE]
    /\ acc' = [acc EXCEPT ![g].pc = "reg", ![g].cur = k,
                          ![g].readers = @ \cup {k}, ![g].writers = @ \cup {k}]
    /\ UNCHANGED <<srvVars, cliVars, call, nconn>>
    /\ ret' = NoRet
    /\ SockFrame

\* lines 89-123: accept() returns connection k and a stream.try_clone()
\* fails, the process being out of descriptors: unwrap panics, at line 95
\* with no thread spawned, at line 123 with the reader running.  The unwind
\* drops the stream, the listener and the handles collected so far.
AcceptClonePanic(g, k, spawned) ==
    /\ Alive /\ ~lim.fds
    /\ acc[g].pc = "top" /\ ~s_stop_flag
    /\ conn[k].st = "pending" /\ conn[k].lis = g
    /\ \A j \in 1..(k - 1) : ~(conn[j].st = "pending" /\ conn[j].lis = g)
    /\ conn' = [conn EXCEPT ![k].st = "accepted",
                            ![k].srd = IF spawned THEN "top" ELSE "none"]
    /\ acc' = [acc EXCEPT ![g].pc = "panic",
                          ![g].readers = IF spawned THEN @ \cup {k} ELSE @]
    /\ UNCHANGED <<srvVars, cliVars, call, nconn>>
    /\ ret' = NoRet
    /\ SockFrame

\* line 143: tx_map.insert(key, tx) for the Sender of connection k; the
\* Sender an equal key held is replaced and dropped.  The accepted stream
\* goes at the end of the arm.
Insert(key, k) ==
    /\ s_tx_map' = [a \in DOMAIN s_tx_map \cup {key} |->
                       IF a = key THEN k ELSE s_tx_map[a]]
    /\ conn' = [j \in 1..MaxConns |->
                  IF j = k THEN [conn[j] EXCEPT !.held = FALSE]
                  ELSE IF key \in DOMAIN s_tx_map /\ j = s_tx_map[key]
                       THEN [conn[j] EXCEPT !.sq_tx = FALSE]
                  ELSE conn[j]]

\* a faulty variant: the Sender is registered whether or not the flag is set
AcceptRegister_NoFlagCheck(g) ==
    /\ Alive
    /\ acc[g].pc = "reg"
    /\ Insert(conn[acc[g].cur].addr, acc[g].cur)
    /\ acc' = [acc EXCEPT ![g].pc = "top", ![g].cur = 0]
    /\ UNCHANGED <<s_stop_flag, s_listen_addr, s_handle, s_stopping, s_runs, cliVars,
                   call, nconn>>
    /\ ret' = NoRet
    /\ SockFrame

\* lines 136-144: under the lock, register the Sender under the peer's
\* address unless the flag is set, in which case `continue` drops it; the
\* accepted stream is dropped
AcceptRegister(g) ==
    /\ Alive
    /\ acc[g].pc = "reg"
    /\ IF s_stop_flag
       THEN /\ conn' = [conn EXCEPT ![acc[g].cur].sq_tx = FALSE, ![acc[g].cur].held = FALSE]
            /\ s_tx_map' = s_tx_map
       ELSE Insert(conn[acc[g].cur].addr, acc[g].cur)
    /\ acc' = [acc EXCEPT ![g].pc = "top", ![g].cur = 0]
    /\ UNCHANGED <<s_stop_flag, s_listen_addr, s_handle, s_stopping, s_runs, cliVars,
                   call, nconn>>
    /\ ret' = NoRet
    /\ SockFrame

\* line 149: accept() fails with something other than WouldBlock
AcceptIoError(g) ==
    /\ Alive
    /\ acc[g].pc = "top" /\ ~s_stop_flag
    /\ acc' = [acc EXCEPT ![g].pc = "panic"]
    /\ UNCHANGED <<srvVars, cliVars, call, conn, nconn>>
    /\ ret' = NoRet
    /\ SockFrame

\* a faulty variant: the accept thread joins the readers only
AcceptJoin_ReadersOnly(g) ==
    /\ Alive
    /\ acc[g].pc = "join"
    /\ \A k \in acc[g].readers : conn[k].srd \in Ended
    /\ acc' = [acc EXCEPT ![g].pc = "done"]
    /\ UNCHANGED <<srvVars, cliVars, call, conn, nconn>>
    /\ ret' = NoRet
    /\ SockFrame

\* lines 80-86: join every reader, then every writer (join().ok(): a thread
\* that panicked counts as joined), and end
AcceptJoin(g) ==
    /\ Alive
    /\ acc[g].pc = "join"
    /\ \A k \in acc[g].readers : conn[k].srd \in Ended
    /\ \A k \in acc[g].writers : conn[k].swr \in Ended
    /\ acc' = [acc EXCEPT ![g].pc = "done"]
    /\ UNCHANGED <<srvVars, cliVars, call, conn, nconn>>
    /\ ret' = NoRet
    /\ SockFrame

(***************************************************************************)
(* Server-side reader and writer of connection k (lines 97-133)            *)
(***************************************************************************)
\* lines 98-100: the flag check at the top of the loop
ServerReaderTop(k) ==
    /\ Alive
    /\ conn[k].srd = "top"
    /\ conn' = [conn EXCEPT ![k].srd = IF s_stop_flag THEN "done" ELSE "reading"]
    /\ UNCHANGED <<srvVars, cliVars, call, acc, nconn>>
    /\ ret' = NoRet
    /\ SockFrame

\* line 102: decode panics (msg.rs:272) at the Int field it cannot shift,
\* at once or after the fields before it have come in; the thread unwinds
\* and its stream is dropped
ServerReaderPanic(k) ==
    /\ Alive
    /\ conn[k].srd = "reading"
    /\ lim.decode = "unwinds"
    /\ conn' = [conn EXCEPT ![k].srd = "panic"]
    /\ UNCHANGED <<srvVars, cliVars, call, acc, nconn>>
    /\ ret' = NoRet
    /\ SockFrame

\* lines 102-105: a message arrived
ServerReaderMsg(k) ==
    /\ Alive
    /\ conn[k].srd = "reading"
    /\ lim.decode = "returns"
    /\ conn[k].c2s # <<>>
    /\ conn' = [conn EXCEPT ![k].c2s = Tail(@), ![k].srd = "top"]
    /\ UNCHANGED <<srvVars, cliVars, call, acc, nconn>>
    /\ ret' = NoRet
    /\ SockFrame

\* lines 106-108: end of stream (the peer closed), or a read that would
\* block found the flag set
ServerReaderEnd(k) ==
    /\ Alive
    /\ conn[k].srd = "reading"
    /\ conn[k].c2s = <<>>
    /\ \/ ~ClientSideOpen(k)
       \/ accepted_nonblocking /\ s_stop_flag
    /\ conn' = [conn EXCEPT ![k].srd = "done"]
    /\ UNCHANGED <<srvVars, cliVars, call, acc, nconn>>
    /\ ret' = NoRet
    /\ SockFrame

\* lines 109-114: the read fails with an I/O error that is neither an end
\* of stream nor a timeout; the error is logged and the loop goes on
ServerReaderIoError(k) ==
    /\ Alive
    /\ conn[k].srd = "reading"
    /\ conn' = [conn EXCEPT ![k].srd = "top"]
    /\ UNCHANGED <<srvVars, cliVars, call, acc, nconn>>
    /\ ret' = NoRet
    /\ SockFrame

\* a faulty variant: the writer takes the newest message of the queue
ServerWriterMsg_Newest(k) ==
    /\ Alive
    /\ conn[k].swr = "run"
    /\ conn[k].sq # <<>>
    /\ IF Unwinds(conn[k].sq[Len(conn[k].sq)])
       THEN conn' = [conn EXCEPT ![k].sq = <<>>, ![k].swr = "panic"]
       ELSE IF ~Encodes(conn[k].sq[Len(conn[k].sq)])
       THEN conn' = [conn EXCEPT ![k].sq = <<>>, ![k].swr = "done"]
       ELSE IF ClientSideOpen(k)
       THEN /\ Len(conn[k].s2c) < lim.queue
            /\ conn' = [conn EXCEPT ![k].sq = SubSeq(@, 1, Len(@) - 1),
                                    ![k].s2c = Append(@, conn[k].sq[Len(conn[k].sq)])]
       ELSE \/ conn' = [conn EXCEPT ![k].sq = SubSeq(@, 1, Len(@) - 1)]
            \/ conn' = [conn EXCEPT ![k].sq = <<>>, ![k].swr = "done"]
    /\ UNCHANGED <<srvVars, cliVars, call, acc, nconn>>
    /\ ret' = NoRet
    /\ SockFrame

\* lines 125-132: take a message off the queue and write it; an encode
\* that panics unwinds the thread, any error (of the encoding or of the
\* socket) ends it.  A write to a connection the peer has closed is taken
\* by the socket and lost until the peer's reset has come in, and fails
\* after that.
ServerWriterMsg(k) ==
    /\ Alive
    /\ conn[k].swr = "run"
    /\ conn[k].sq # <<>>
    /\ IF Unwinds(Head(conn[k].sq))
       THEN conn' = [conn EXCEPT ![k].sq = <<>>, ![k].swr = "panic"]
       ELSE IF ~Encodes(Head(conn[k].sq))
       THEN conn' = [conn EXCEPT ![k].sq = <<>>, ![k].swr = "done"]
       ELSE IF ClientSideOpen(k)
       THEN /\ Len(conn[k].s2c) < lim.queue
            /\ conn' = [conn EXCEPT ![k].sq = Tail(@),
                                    ![k].s2c = Append(@, Head(conn[k].sq))]
       ELSE \/ conn' = [conn EXCEPT ![k].sq = Tail(@)]
            \/ conn' = [conn EXCEPT ![k].sq = <<>>, ![k].swr = "done"]
    /\ UNCHANGED <<srvVars, cliVars, call, acc, nconn>>
    /\ ret' = NoRet
    /\ SockFrame

\* line 125: recv() fails, the queue is empty and every Sender is gone
ServerWriterEnd(k) ==
    /\ Alive
    /\ conn[k].swr = "run"
    /\ conn[k].sq = <<>> /\ ~conn[k].sq_tx
    /\ conn' = [conn EXCEPT ![k].swr = "done"]
    /\ UNCHANGED <<srvVars, cliVars, call, acc, nconn>>
    /\ ret' = NoRet
    /\ SockFrame

(***************************************************************************)
(* Client, as called                                                       *)
(***************************************************************************)
\* Client::run returning Err before it changed anything (lines 212-227)
ClientRunFail(e) ==
    /\ call = "idle" /\ c_writer_handle = 0
    /\ ret' = CRet("run", e)
    /\ UNCHANGED <<srvVars, cliVars, call, acc, conn, nconn>>
    /\ SockFrame

\* Client::run panicking at Socket::new(..).unwrap() (line 216), the
\* process being out of descriptors, before it changed anything
ClientRunPanic ==
    /\ call = "idle" /\ c_writer_handle = 0 /\ ~lim.fds
    /\ call' = "panicked"
    /\ ret' = CRet("run", "Panic")
    /\ UNCHANGED <<srvVars, cliVars, acc, conn, nconn>>
    /\ SockFrame

\* the local address a of the socket Client::run connects, asked to bind
\* req (0: bind_addr is None and the system picks an address no connection
\* had before; the number of the connection stands for it).  An address
\* asked for is one no connection had before or, when the envelope has
\* rebind, the address of an earlier connection of which the client holds no
\* socket any more (bind fails on an address in use, ClientRunFail).
CanBind(req, a) ==
    /\ req \in {0, a}
    /\ \/ a = nconn + 1
       \/ /\ req = a /\ lim.rebind /\ a \in 1..nconn
          /\ \A j \in 1..nconn : conn[j].addr = a => ~ClientSideOpen(j)

\* Client::run returning Err at the first socket.try_clone() (line 239),
\* the process being out of descriptors: connected to listener g, the flag
\* and the address set, and the socket closed again on return
ClientRunCloneFail(g, req, a) ==
    /\ call = "idle" /\ c_writer_handle = 0 /\ ~lim.fds
    /\ nconn < lim.conns
    /\ Listening(g) /\ CanBind(req, a)
    /\ nconn' = nconn + 1
    /\ c_stop_flag' = FALSE
    /\ c_bind_addr' = a
    /\ conn' = [conn EXCEPT ![nconn'] = [NoConn EXCEPT !.st = "pending", !.lis = g, !.addr = a]]
    /\ ret' = CRet("run", "Io")
    /\ UNCHANGED <<c_tx, c_reader_handle, c_writer_handle, c_stopping, srvVars, call, acc>>
    /\ SockFrame

\* Client::run returning Err at the second socket.try_clone() (line 261):
\* as above, and the reader thread is already running on the first clone
ClientRunCloneFailAfterReader(g, req, a) ==
    /\ call = "idle" /\ c_writer_handle = 0 /\ ~lim.fds
    /\ nconn < lim.conns
    /\ Listening(g) /\ CanBind(req, a)
    /\ nconn' = nconn + 1
    /\ c_stop_flag' = FALSE
    /\ c_bind_addr' = a
    /\ conn' = [conn EXCEPT ![nconn'] =
                   [NoConn EXCEPT !.st = "pending", !.lis = g, !.addr = a, !.crd = "top"]]
    /\ c_reader_handle' = nconn'
    /\ ret' = CRet("run", "Io")
    /\ UNCHANGED <<c_tx, c_writer_handle, c_stopping, srvVars, call, acc>>
    /\ SockFrame

\* a faulty variant: bind_addr is what the caller asked for, not what
\* local_addr() returns after the connect
ClientRun_AddrAskedFor(g, req, a) ==
    /\ call = "idle" /\ c_writer_handle = 0
    /\ nconn < lim.conns
    /\ Listening(g) /\ CanBind(req, a)
    /\ nconn' = nconn + 1
    /\ c_stop_flag' = FALSE
    /\ c_bind_addr' = req
    /\ conn' = [conn EXCEPT ![nconn'] =
                   [NoConn EXCEPT !.st = "pending", !.lis = g, !.addr = a,
                                  !.crd = "top", !.cwr = "run", !.cq_tx = TRUE]]
    /\ c_reader_handle' = nconn'
    /\ c_writer_handle' = nconn'
    /\ c_tx' = nconn'
    /\ ret' = CRet("run", "Ok")
    /\ UNCHANGED <<c_stopping, srvVars, call, acc>>
    /\ SockFrame

\* Client::run returning Ok (lines 212-276), connected to listener g;
\* bind_addr is socket.local_addr() taken after the connect (line 227)
ClientRun(g, req, a) ==
    /\ call = "idle" /\ c_writer_handle = 0
    /\ nconn < lim.conns
    /\ Listening(g) /\ CanBind(req, a)
    /\ nconn' = nconn + 1
    /\ c_stop_flag' = FALSE
    /\ c_bind_addr' = a
    /\ conn' = [conn EXCEPT ![nconn'] =
                   [NoConn EXCEPT !.st = "pending", !.lis = g, !.addr = a,
                                  !.crd = "top", !.cwr = "run", !.cq_tx = TRUE]]
    /\ c_reader_handle' = nconn'
    /\ c_writer_handle' = nconn'
    /\ c_tx' = nconn'
    /\ ret' = CRet("run", "Ok")
    /\ UNCHANGED <<c_stopping, srvVars, call, acc>>
    /\ SockFrame

\* Client::stop without both handles: panic!() (line 292)
ClientStopIdle ==
    /\ call = "idle"
    /\ c_reader_handle = 0 \/ c_writer_handle = 0
    /\ c_reader_handle' = 0 /\ c_writer_handle' = 0
    /\ call' = "panicked"
    /\ ret' = CRet("stop", "Panic")
    /\ UNCHANGED <<c_stop_flag, c_bind_addr, c_tx, c_stopping, srvVars, acc, conn, nconn>>
    /\ SockFrame

\* Client::stop, lines 280-284
ClientStopBegin ==
    /\ call = "idle"
    /\ c_reader_handle # 0 /\ c_writer_handle # 0
    /\ c_stopping' = <<c_reader_handle, c_writer_handle>>
    /\ c_reader_handle' = 0 /\ c_writer_handle' = 0
    /\ c_stop_flag' = TRUE
    /\ c_bind_addr' = 0
    /\ call' = "client_stop_take"
    /\ UNCHANGED <<c_tx, srvVars, acc, conn, nconn>>
    /\ ret' = NoRet
    /\ SockFrame

\* Client::stop, lines 285-288: the Sender is taken out and dropped
ClientStopTake ==
    /\ call = "client_stop_take"
    /\ c_tx' = 0
    /\ conn' = [k \in 1..MaxConns |->
                  IF k = c_tx THEN [conn[k] EXCEPT !.cq_tx = FALSE] ELSE conn[k]]
    /\ call' = "client_stop_join_reader"
    /\ UNCHANGED <<c_stop_flag, c_bind_addr, c_reader_handle, c_writer_handle,
                   c_stopping, srvVars, acc, nconn>>
    /\ ret' = NoRet
    /\ SockFrame

\* Client::stop, line 289: reader_handle.join().unwrap() returns once the
\* reader has ended, and panics if it panicked
ClientStopJoinReader ==
    /\ call = "client_stop_join_reader"
    /\ conn[c_stopping[1]].crd \in Ended
    /\ IF conn[c_stopping[1]].crd = "done"
       THEN call' = "client_stop_join_writer" /\ ret' = NoRet
       ELSE call' = "panicked" /\ ret' = CRet("stop", "Panic")
    /\ UNCHANGED <<cliVars, srvVars, acc, conn, nconn>>
    /\ SockFrame

\* Client::stop, line 290: writer_handle.join().unwrap(), likewise
ClientStopJoinWriter ==
    /\ call = "client_stop_join_writer"
    /\ conn[c_stopping[2]].cwr \in Ended
    /\ IF conn[c_stopping[2]].cwr = "done"
       THEN call' = "idle" /\ ret' = CRet("stop", "Ok")
       ELSE call' = "panicked" /\ ret' = CRet("stop", "Panic")
    /\ UNCHANGED <<cliVars, srvVars, acc, conn, nconn>>
    /\ SockFrame

\* Client::send_msg (lines 296-303); a failed tx.send is ignored
ClientSendMsg(m) ==
    /\ call = "idle"
    /\ IF c_tx # 0
       THEN /\ IF conn[c_tx].cwr = "run"
               THEN /\ Len(conn[c_tx].cq) < lim.queue
                    /\ conn' = [conn EXCEPT ![c_tx].cq = Append(@, m)]
               ELSE conn' = conn
            /\ ret' = CRet("send_msg", "Ok")
       ELSE /\ ret' = CRet("send_msg", "NotConnected")
            /\ conn' = conn
    /\ UNCHANGED <<cliVars, call, srvVars, acc, nconn>>
    /\ SockFrame

(***************************************************************************)
(* Client-side reader and writer of connection k (lines 240-272)           *)
(***************************************************************************)
\* lines 241-243
ClientReaderTop(k) ==
    /\ Alive
    /\ conn[k].crd = "top"
    /\ conn' = [conn EXCEPT ![k].crd = IF c_stop_flag THEN "done" ELSE "reading"]
    /\ UNCHANGED <<srvVars, cliVars, call, acc, nconn>>
    /\ ret' = NoRet
    /\ SockFrame

\* line 245: decode panics (msg.rs:272); the thread unwinds and its stream
\* is dropped
ClientReaderPanic(k) ==
    /\ Alive
    /\ conn[k].crd = "reading"
    /\ lim.decode = "unwinds"
    /\ conn' = [conn EXCEPT ![k].crd = "panic"]
    /\ UNCHANGED <<srvVars, cliVars, call, acc, nconn>>
    /\ ret' = NoRet
    /\ SockFrame

\* lines 245-248
ClientReaderMsg(k) ==
    /\ Alive
    /\ conn[k].crd = "reading"
    /\ lim.decode = "returns"
    /\ conn[k].s2c # <<>>
    /\ conn' = [conn EXCEPT ![k].s2c = Tail(@), ![k].crd = "top"]
    /\ UNCHANGED <<srvVars, cliVars, call, acc, nconn>>
    /\ ret' = NoRet
    /\ SockFrame

\* lines 249-251: end of stream, or the read timed out (the socket has a
\* read timeout, line 224) and found the flag set
ClientReaderEnd(k) ==
    /\ Alive
    /\ conn[k].crd = "reading"
    /\ conn[k].s2c = <<>>
    /\ ~ServerSideOpen(k) \/ c_stop_flag
    /\ conn' = [conn EXCEPT ![k].crd = "done"]
    /\ UNCHANGED <<srvVars, cliVars, call, acc, nconn>>
    /\ ret' = NoRet
    /\ SockFrame

\* lines 252-254: the read fails with another I/O error; the error is
\* logged and the loop goes on
ClientReaderIoError(k) ==
    /\ Alive
    /\ conn[k].crd = "reading"
    /\ conn' = [conn EXCEPT ![k].crd = "top"]
    /\ UNCHANGED <<srvVars, cliVars, call, acc, nconn>>
    /\ ret' = NoRet
    /\ SockFrame

\* lines 263-271: an encode that panics unwinds the thread, a message that
\* does not encode is reported and skipped, a failed socket write ends the
\* thread; a write to a connection the peer has closed is taken and lost
\* until the peer's reset has come in
ClientWriterMsg(k) ==
    /\ Alive
    /\ conn[k].cwr = "run"
    /\ conn[k].cq # <<>>
    /\ IF Unwinds(Head(conn[k].cq))
       THEN conn' = [conn EXCEPT ![k].cq = <<>>, ![k].cwr = "panic"]
       ELSE IF ~Encodes(Head(conn[k].cq))
       THEN conn' = [conn EXCEPT ![k].cq = Tail(@)]
       ELSE IF ServerSideOpen(k)
       THEN /\ Len(conn[k].c2s) < lim.queue
            /\ conn' = [conn EXCEPT ![k].cq = Tail(@),
                                    ![k].c2s = Append(@, Head(conn[k].cq))]
       ELSE \/ conn' = [conn EXCEPT ![k].cq = Tail(@)]
            \/ conn' = [conn EXCEPT ![k].cq = <<>>, ![k].cwr = "done"]
    /\ UNCHANGED <<srvVars, cliVars, call, acc, nconn>>
    /\ ret' = NoRet
    /\ SockFrame

\* line 263: recv() fails
ClientWriterEnd(k) ==
    /\ Alive
    /\ conn[k].cwr = "run"
    /\ conn[k].cq = <<>> /\ ~conn[k].cq_tx
    /\ conn' = [conn EXCEPT ![k].cwr = "done"]
    /\ UNCHANGED <<srvVars, cliVars, call, acc, nconn>>
    /\ ret' = NoRet
    /\ SockFrame

(***************************************************************************)
(* The codec as the operator drives it: a schema, a message to encode or   *)
(* a buffer to decode, and the calls of the public surface.                *)
(***************************************************************************)
CodecInit ==
    /\ \/ item_fmts \in Schemas /\ msg \in MessagesFor(item_fmts) /\ buf = <<>>
       \/ item_fmts \in Schemas /\ msg = <<>> /\ buf \in Buffers
       \/ item_fmts = TestFmt /\ msg = TestMsg /\ buf = <<>>
    /\ buf_src = "input"
    /\ last = [op |-> "none", r |-> Unset]

\* no codec call in progress or made (the endpoint and single-field runs)
CodecQuiet ==
    /\ item_fmts = <<>> /\ msg = <<>> /\ buf = <<>>
    /\ buf_src = "input"
    /\ last = [op |-> "none", r |-> Unset]

\* Option<Error> as a result: None, or Some(e)
OptErr(e) == [st |-> IF e = NoErr THEN "None" ELSE "Some", val |-> <<>>, e |-> e]

\* MessageFormat::err
Validate ==
    /\ last' = [op |-> "err", r |-> OptErr(MessageFormatErr(item_fmts))]
    /\ UNCHANGED <<item_fmts, msg, buf, buf_src, intVars, writeVars, readVars, sockVars>>

\* MessageFormat::encode on the message
DoEncode ==
    /\ \E mem \in BOOLEAN : last' = [op |-> "encode", r |-> Encode(item_fmts, msg, mem)]
    /\ UNCHANGED <<item_fmts, msg, buf, buf_src, intVars, writeVars, readVars, sockVars>>

\* the bytes encode returned become the decoder's input
\* (tests::encode_and_decode_ok)
FeedEncoded ==
    /\ last.op = "encode" /\ last.r.st = "Ok"
    /\ buf_src = "input"
    /\ buf' = last.r.val
    /\ buf_src' = "encoded"
    /\ UNCHANGED <<item_fmts, msg, last, intVars, writeVars, readVars, sockVars>>

\* MessageFormat::decode on the buffer
DoDecode ==
    /\ \E mem \in BOOLEAN :
         last' = [op |-> "decode", r |-> Decode(item_fmts, buf, ovf_checks, mem)]
    /\ UNCHANGED <<item_fmts, msg, buf, buf_src, intVars, writeVars, readVars, sockVars>>

\* MessageFormat::read_from on a stream that delivers the buffer's bytes and
\* is then closed by the peer
DoReadFrom ==
    /\ \E mem \in BOOLEAN :
         last' = [op |-> "read_from", r |-> ReadFrom(item_fmts, buf, ovf_checks, mem)]
    /\ UNCHANGED <<item_fmts, msg, buf, buf_src, intVars, writeVars, readVars, sockVars>>

(***************************************************************************)
(* A writer: write_to called on one message after the other, as the writer *)
(* loops of socket.rs do                                                   *)
(***************************************************************************)
\* the formats a writer is tried with: integers, fixed and variable text, a
\* field too wide to be written
WriteFormats == {FLen(1), FUint(1), FInt(9), FFixedString(1), FVarString(0), FFixedBytes(2)}

WriteInit ==
    /\ item_fmts \in SeqsUpTo(WriteFormats, MaxFields)
    /\ outbox \in SeqsUpTo(MessagesFor(item_fmts), MaxWrites)
    /\ wpos = 0 /\ stream = <<>>
    /\ msg = <<>> /\ buf = <<>> /\ buf_src = "input"
    /\ last = [op |-> "none", r |-> Unset]

WriteQuiet == outbox = <<>> /\ wpos = 0 /\ stream = <<>>

ReadQuiet == arrived = 0 /\ taken = 0 /\ rx_values = <<>> /\ inbox = <<>>

\* a write_to of this writer failed on the socket, or panicked
WriterEnded == last.op = "write_to" /\ (last.r.e = IoError \/ last.r.st = "Panic")

\* MessageFormat::write_to on the next message
DoWriteTo(n) ==
    /\ wpos < Len(outbox) /\ ~WriterEnded
    /\ \E mem \in BOOLEAN :
         /\ \/ LongMsg(item_fmts, outbox[wpos + 1])
            \/ n <= Len(Encode(item_fmts, outbox[wpos + 1], mem).val)
         /\ LET w == WriteTo(item_fmts, outbox[wpos + 1], stream, n, mem) IN
              /\ stream' = w.stream
              /\ last' = [op |-> "write_to", r |-> w.res]
    /\ wpos' = wpos + 1
    /\ UNCHANGED <<item_fmts, msg, buf, buf_src, outbox, intVars, readVars, sockVars>>

(***************************************************************************)
(* A reader: MessageFormat::read_from called in a loop on a socket with a  *)
(* read timeout, the bytes of stream reaching it in pieces                 *)
(***************************************************************************)
\* the network hands the next n bytes the writer has sent to the reading socket
Arrive(n) ==
    /\ n >= 1 /\ arrived + n <= Len(stream)
    /\ arrived' = arrived + n
    /\ UNCHANGED <<taken, rx_values, inbox, codecVars, intVars, writeVars, sockVars>>

\* the field read_from is at, and the length item_fmt.len(..) gives for it
RxFmt == item_fmts[Len(rx_values) + 1]
RxLen == ItemLen(RxFmt, Len(rx_values), item_fmts, rx_values)

\* the bytes the reading socket holds
Unread == SubSeq(stream, taken + 1, arrived)

\* one pass of read_from's loop whose read_exact fills its buffer: the field
\* is converted; the last field completes the message, which the reader's
\* loop hands on before it calls read_from again; a FromUtf8 error ends the
\* call, the reader's loop logs it and calls read_from again
ReadItem ==
    /\ Len(rx_values) < Len(item_fmts) /\ RxLen.st = "Ok"
    /\ Len(Unread) >= Consumed(RxFmt, RxLen.val)
    /\ LET r == ReadFromTcpStream(RxFmt, RxLen.val, Unread, ovf_checks) IN
         /\ r.st # "Panic"
         /\ taken' = taken + Consumed(RxFmt, RxLen.val)
         /\ IF r.st # "Ok" THEN rx_values' = <<>> /\ inbox' = inbox
            ELSE IF Len(rx_values) + 1 = Len(item_fmts)
                 THEN rx_values' = <<>> /\ inbox' = Append(inbox, Append(rx_values, r.val))
            ELSE rx_values' = Append(rx_values, r.val) /\ inbox' = inbox
    /\ UNCHANGED <<arrived, codecVars, intVars, writeVars, sockVars>>

\* a read_exact that takes the bytes that have arrived, fewer than its
\* buffer holds, and then meets the read timeout: read_from_tcp_stream
\* sleeps and calls read_exact again on the whole of the same buffer
ReadTimedOut ==
    /\ Len(rx_values) < Len(item_fmts) /\ RxLen.st = "Ok"
    /\ Len(Unread) >= 1 /\ Len(Unread) < Consumed(RxFmt, RxLen.val)
    /\ taken' = arrived
    /\ UNCHANGED <<arrived, rx_values, inbox, codecVars, intVars, writeVars, sockVars>>

(***************************************************************************)
(* One Int field: every width, values at the edges of every width          *)
(***************************************************************************)
IntWidths == 0..9

\* wire forms b1, b2, .., b2 of every length up to 8, sign-extended
IntValues ==
    {SignExtend(<<b1>> \o Rep(b2, n - 1), FALSE).val :
        b1 \in {0, 1, 127, 128, 255}, b2 \in {0, 1, 255}, n \in 1..SizeOfU64}

IntInit ==
    /\ int_len \in IntWidths
    /\ int_val \in IntValues
    /\ ovf_checks \in BOOLEAN
    /\ int_out = Unset /\ int_in = Unset /\ int_dec = Unset

IntQuiet ==
    /\ int_len = 0 /\ int_val = U8(0) /\ ovf_checks = FALSE
    /\ int_out = Unset /\ int_in = Unset /\ int_dec = Unset

\* MessageFormat::encode of the one-field message
IntEncode ==
    /\ \E mem \in BOOLEAN : int_out' = Encode(<<FInt(int_len)>>, <<VInt(int_val)>>, mem)
    /\ UNCHANGED <<int_len, int_val, int_in, int_dec, ovf_checks, codecVars, writeVars, readVars, sockVars>>

\* MessageFormat::read_from over a stream carrying the encoded bytes
IntReadFrom ==
    /\ int_out.st = "Ok"
    /\ \E mem \in BOOLEAN : int_in' = ReadFrom(<<FInt(int_len)>>, int_out.val, ovf_checks, mem)
    /\ UNCHANGED <<int_len, int_val, int_out, int_dec, ovf_checks, codecVars, writeVars, readVars, sockVars>>

\* MessageFormat::decode of the encoded bytes
IntDecode ==
    /\ int_out.st = "Ok"
    /\ \E mem \in BOOLEAN : int_dec' = Decode(<<FInt(int_len)>>, int_out.val, ovf_checks, mem)
    /\ UNCHANGED <<int_len, int_val, int_out, int_in, ovf_checks, codecVars, writeVars, readVars, sockVars>>

(***************************************************************************)
(* Specifications                                                          *)
(***************************************************************************)
\* the codec, in either kind of build
Init ==
    /\ CodecInit /\ WriteQuiet /\ ReadQuiet
    /\ int_len = 0 /\ int_val = U8(0) /\ ovf_checks \in BOOLEAN
    /\ int_out = Unset /\ int_in = Unset /\ int_dec = Unset
    /\ SockInit /\ accepted_nonblocking = FALSE /\ lim = SockLimits

Next == Validate \/ DoEncode \/ FeedEncoded \/ DoDecode

Spec == Init /\ [][Next]_vars

\* the codec with both of its decoders, in either kind of build
InitDecoders ==
    /\ CodecInit /\ WriteQuiet /\ ReadQuiet
    /\ int_len = 0 /\ int_val = U8(0) /\ ovf_checks \in BOOLEAN
    /\ int_out = Unset /\ int_in = Unset /\ int_dec = Unset
    /\ SockInit /\ accepted_nonblocking = FALSE /\ lim = SockLimits

NextDecoders == DoEncode \/ FeedEncoded \/ DoDecode \/ DoReadFrom

SpecDecoders == InitDecoders /\ [][NextDecoders]_vars

\* one Int field
InitInt ==
    /\ IntInit
    /\ item_fmts = <<>> /\ msg = <<>> /\ buf = <<>> /\ buf_src = "input"
    /\ last = [op |-> "none", r |-> Unset]
    /\ WriteQuiet /\ ReadQuiet
    /\ SockInit /\ accepted_nonblocking = FALSE /\ lim = SockLimits

NextInt == IntEncode \/ IntReadFrom \/ IntDecode

SpecInt == InitInt /\ [][NextInt]_vars

\* a writer
InitWrite ==
    /\ WriteInit /\ IntQuiet /\ ReadQuiet
    /\ SockInit /\ accepted_nonblocking = FALSE /\ lim = SockLimits

NextWrite == \E n \in 0..(MaxFields * SizeOfU64) : DoWriteTo(n)

SpecWrite == InitWrite /\ [][NextWrite]_vars

\* a writer and the reader at the other end of its socket, the schema a
\* validated one and every message handed to the writer one value per field
InitRead ==
    /\ WriteInit /\ MessageFormatErr(item_fmts) = NoErr
    /\ \A i \in 1..Len(outbox) : Len(outbox[i]) = Len(item_fmts)
    /\ IntQuiet /\ ReadQuiet
    /\ SockInit /\ accepted_nonblocking = FALSE /\ lim = SockLimits

NextRead ==
    \/ \E n \in 0..(MaxFields * SizeOfU64) : DoWriteTo(n)
    \/ \E n \in 1..(MaxWrites * MaxFields * SizeOfU64) : Arrive(n)
    \/ ReadItem
    \/ ReadTimedOut

SpecRead == InitRead /\ [][NextRead]_vars

\* the endpoints; the threads that panic are explored over one connection
InitSock ==
    /\ SockInit /\ accepted_nonblocking \in BOOLEAN
    /\ lim \in WithFaults(SockLimits, [SockLimits EXCEPT !.conns = FlowConns])
    /\ CodecQuiet /\ IntQuiet /\ WriteQuiet /\ ReadQuiet

NextSock ==
    \/ \E e \in {"AddrParse", "Io"} : ServerRunFail(e)
    \/ ServerRun
    \/ ServerRunPanic
    \/ ServerStopIdle
    \/ ServerStopBegin
    \/ ServerStopClear
    \/ ServerStopJoin
    \/ \E a \in 1..MaxConns, m \in lim.server_msgs : ServerSendMsg(a, m)
    \/ \E g \in 1..MaxRuns : AcceptSeesStop(g)
    \/ \E g \in 1..MaxRuns, k \in 1..MaxConns : Accept(g, k)
    \/ \E g \in 1..MaxRuns, k \in 1..MaxConns, spawned \in BOOLEAN :
          AcceptClonePanic(g, k, spawned)
    \/ \E g \in 1..MaxRuns : AcceptRegister(g)
    \/ \E g \in 1..MaxRuns : AcceptIoError(g)
    \/ \E g \in 1..MaxRuns : AcceptJoin(g)
    \/ \E k \in 1..MaxConns : ServerReaderTop(k)
    \/ \E k \in 1..MaxConns : ServerReaderPanic(k)
    \/ \E k \in 1..MaxConns : ServerReaderMsg(k)
    \/ \E k \in 1..MaxConns : ServerReaderEnd(k)
    \/ \E k \in 1..MaxConns : ServerReaderIoError(k)
    \/ \E k \in 1..MaxConns : ServerWriterMsg(k)
    \/ \E k \in 1..MaxConns : ServerWriterEnd(k)
    \/ \E e \in {"AddrParse", "Io"} : ClientRunFail(e)
    \/ ClientRunPanic
    \/ \E g \in 1..MaxRuns, a \in 1..MaxConns : \E req \in {0, a} :
          ClientRunCloneFail(g, req, a)
    \/ \E g \in 1..MaxRuns, a \in 1..MaxConns : \E req \in {0, a} :
          ClientRunCloneFailAfterReader(g, req, a)
    \/ \E g \in 1..MaxRuns, a \in 1..MaxConns : \E req \in {0, a} : ClientRun(g, req, a)
    \/ ClientStopIdle
    \/ ClientStopBegin
    \/ ClientStopTake
    \/ ClientStopJoinReader
    \/ ClientStopJoinWriter
    \/ \E m \in lim.client_msgs : ClientSendMsg(m)
    \/ \E k \in 1..MaxConns : ClientReaderTop(k)
    \/ \E k \in 1..MaxConns : ClientReaderPanic(k)
    \/ \E k \in 1..MaxConns : ClientReaderMsg(k)
    \/ \E k \in 1..MaxConns : ClientReaderEnd(k)
    \/ \E k \in 1..MaxConns : ClientReaderIoError(k)
    \/ \E k \in 1..MaxConns : ClientWriterMsg(k)
    \/ \E k \in 1..MaxConns : ClientWriterEnd(k)

SpecSock == InitSock /\ [][NextSock]_vars

\* the endpoints over one run and one connection, with deeper queues
InitFlow ==
    /\ SockInit /\ accepted_nonblocking \in BOOLEAN
    /\ lim \in {FlowLimits, Starved(LiveLimits), Unwinding(FlowLimits)}
    /\ CodecQuiet /\ IntQuiet /\ WriteQuiet /\ ReadQuiet

SpecFlow == InitFlow /\ [][NextSock]_vars

\* the endpoints over one server run and two connections in a process that
\* runs out of descriptors, Client::run failing where it duplicates its
\* socket; threads that panic in decode are explored over one connection
InitFail ==
    /\ SockInit /\ accepted_nonblocking \in BOOLEAN
    /\ lim \in {Starved([FailLimits EXCEPT !.server_msgs = {"m"}]),
                Unwinding([FailLimits EXCEPT !.conns = FlowConns])}
    /\ CodecQuiet /\ IntQuiet /\ WriteQuiet /\ ReadQuiet

SpecFail == InitFail /\ [][NextSock]_vars

\* the endpoints over one server run and two connections with threads that
\* panic, on sockets that do not inherit the listener's mode; where decode
\* panics, every message of the client is one on which encode panics
InitFault ==
    /\ SockInit /\ accepted_nonblocking = FALSE
    /\ lim \in {Starved(FailLimits),
                [Unwinding(FailLimits) EXCEPT !.client_msgs = {"unwinding"}]}
    /\ CodecQuiet /\ IntQuiet /\ WriteQuiet /\ ReadQuiet

SpecFault == InitFault /\ [][NextSock]_vars

\* the endpoints over one server run and two connections of which the
\* second may bind the address of the first
InitRebind ==
    /\ SockInit /\ accepted_nonblocking = FALSE
    /\ lim \in WithFaults([FailLimits EXCEPT !.rebind = TRUE], LiveLimits)
    /\ CodecQuiet /\ IntQuiet /\ WriteQuiet /\ ReadQuiet

SpecRebind == InitRebind /\ [][NextSock]_vars

\* the same with one connection more, for a run that follows a stop that
\* follows a run that failed; a run that binds the address of the run
\* before, and threads that panic, are explored over two connections
InitRerun ==
    /\ SockInit /\ accepted_nonblocking \in BOOLEAN
    /\ lim \in {Starved(RerunLimits),
                Unwinding([RerunLimits EXCEPT !.conns = SockConns]),
                [RerunLimits EXCEPT !.conns = SockConns, !.rebind = TRUE]}
    /\ CodecQuiet /\ IntQuiet /\ WriteQuiet /\ ReadQuiet

\* the calls of the lifecycle and the threads they start; no message is sent
NextRerun ==
    \/ \E e \in {"AddrParse", "Io"} : ServerRunFail(e)
    \/ ServerRun
    \/ ServerRunPanic
    \/ ServerStopIdle
    \/ ServerStopBegin
    \/ ServerStopClear
    \/ ServerStopJoin
    \/ \E g \in 1..MaxRuns : AcceptSeesStop(g)
    \/ \E g \in 1..MaxRuns, k \in 1..MaxConns : Accept(g, k)
    \/ \E g \in 1..MaxRuns, k \in 1..MaxConns, spawned \in BOOLEAN :
          AcceptClonePanic(g, k, spawned)
    \/ \E g \in 1..MaxRuns : AcceptRegister(g)
    \/ \E g \in 1..MaxRuns : AcceptIoError(g)
    \/ \E g \in 1..MaxRuns : AcceptJoin(g)
    \/ \E k \in 1..MaxConns : ServerReaderTop(k)
    \/ \E k \in 1..MaxConns : ServerReaderPanic(k)
    \/ \E k \in 1..MaxConns : ServerReaderEnd(k)
    \/ \E k \in 1..MaxConns : ServerReaderIoError(k)
    \/ \E k \in 1..MaxConns : ServerWriterEnd(k)
    \/ \E e \in {"AddrParse", "Io"} : ClientRunFail(e)
    \/ ClientRunPanic
    \/ \E g \in 1..MaxRuns, a \in 1..MaxConns : \E req \in {0, a} :
          ClientRunCloneFail(g, req, a)
    \/ \E g \in 1..MaxRuns, a \in 1..MaxConns : \E req \in {0, a} :
          ClientRunCloneFailAfterReader(g, req, a)
    \/ \E g \in 1..MaxRuns, a \in 1..MaxConns : \E req \in {0, a} : ClientRun(g, req, a)
    \/ ClientStopIdle
    \/ ClientStopBegin
    \/ ClientStopTake
    \/ ClientStopJoinReader
    \/ ClientStopJoinWriter
    \/ \E k \in 1..MaxConns : ClientReaderTop(k)
    \/ \E k \in 1..MaxConns : ClientReaderPanic(k)
    \/ \E k \in 1..MaxConns : ClientReaderEnd(k)
    \/ \E k \in 1..MaxConns : ClientReaderIoError(k)
    \/ \E k \in 1..MaxConns : ClientWriterEnd(k)

SpecRerun == InitRerun /\ [][NextRerun]_vars

\* the endpoints with their threads scheduled: a thread that can take a
\* step takes it in the end, and so does the caller inside a stop; nothing
\* obliges the caller to make another call, a socket to fail or a peer to
\* be there
InitLive ==
    /\ SockInit /\ accepted_nonblocking \in BOOLEAN
    /\ lim \in WithFaults(LiveLimits, LiveLimits)
    /\ CodecQuiet /\ IntQuiet /\ WriteQuiet /\ ReadQuiet

ThreadsScheduled ==
    /\ WF_vars(ServerStopClear) /\ WF_vars(ServerStopJoin)
    /\ WF_vars(ClientStopTake) /\ WF_vars(ClientStopJoinReader)
    /\ WF_vars(ClientStopJoinWriter)
    /\ \A g \in 1..MaxRuns :
        /\ WF_vars(AcceptSeesStop(g)) /\ WF_vars(AcceptRegister(g))
        /\ WF_vars(AcceptJoin(g))
        /\ \A k \in 1..MaxConns : WF_vars(Accept(g, k))
    /\ \A k \in 1..MaxConns :
        /\ WF_vars(ServerReaderTop(k)) /\ WF_vars(ServerReaderMsg(k))
        /\ WF_vars(ServerReaderEnd(k))
        /\ WF_vars(ServerWriterMsg(k)) /\ WF_vars(ServerWriterEnd(k))
        /\ WF_vars(ClientReaderTop(k)) /\ WF_vars(ClientReaderMsg(k))
        /\ WF_vars(ClientReaderEnd(k))
        /\ WF_vars(ClientWriterMsg(k)) /\ WF_vars(ClientWriterEnd(k))

SpecLive == InitLive /\ [][NextSock]_vars /\ ThreadsScheduled

(***************************************************************************)
(* The Mutex of Server.tx_map, with taking the guard and the section under *)
(* it as separate steps.  The accept thread holds the guard at pc          *)
(* "locked", the calling thread inside the calls of LockedCalls; lock()    *)
(* returns when no other thread holds the guard.                           *)
(***************************************************************************)
LockedCalls == {"server_stop_locked", "server_send_locked", "client_len_locked"}

LockFree == call \notin LockedCalls /\ \A g \in 1..MaxRuns : acc[g].pc # "locked"

\* line 137: tx_map.lock() in the accept thread
AcceptLock(g) ==
    /\ Alive
    /\ acc[g].pc = "reg" /\ LockFree
    /\ acc' = [acc EXCEPT ![g].pc = "locked"]
    /\ UNCHANGED <<srvVars, cliVars, call, conn, nconn>>
    /\ ret' = NoRet
    /\ SockFrame

\* lines 139-144: the flag check and the insert; the guard is dropped at the
\* end of the block or at `continue`
AcceptRegisterLocked(g) ==
    /\ Alive
    /\ acc[g].pc = "locked"
    /\ IF s_stop_flag
       THEN /\ conn' = [conn EXCEPT ![acc[g].cur].sq_tx = FALSE, ![acc[g].cur].held = FALSE]
            /\ s_tx_map' = s_tx_map
       ELSE Insert(conn[acc[g].cur].addr, acc[g].cur)
    /\ acc' = [acc EXCEPT ![g].pc = "top", ![g].cur = 0]
    /\ UNCHANGED <<s_stop_flag, s_listen_addr, s_handle, s_stopping, s_runs, cliVars,
                   call, nconn>>
    /\ ret' = NoRet
    /\ SockFrame

\* Server::stop, line 161: self.tx_map.lock()
ServerStopLock ==
    /\ call = "server_stop_clear" /\ LockFree
    /\ call' = "server_stop_locked"
    /\ UNCHANGED <<srvVars, cliVars, acc, conn, nconn>>
    /\ ret' = NoRet
    /\ SockFrame

\* a faulty variant: the join sits inside the block that holds the guard
ServerStopClearLocked_Joining ==
    /\ call = "server_stop_locked"
    /\ acc[s_stopping].pc \in {"done", "panic"}
    /\ s_tx_map' = NoTx
    /\ conn' = [k \in 1..MaxConns |->
                  IF k \in Registered THEN [conn[k] EXCEPT !.sq_tx = FALSE] ELSE conn[k]]
    /\ call' = "server_stop_join"
    /\ UNCHANGED <<s_stop_flag, s_listen_addr, s_handle, s_stopping, s_runs,
                   acc, cliVars, nconn>>
    /\ ret' = NoRet
    /\ SockFrame

\* Server::stop, lines 162-163: clear the map; the guard is dropped at the
\* end of the block, before the join of line 164
ServerStopClearLocked ==
    /\ call = "server_stop_locked"
    /\ s_tx_map' = NoTx
    /\ conn' = [k \in 1..MaxConns |->
                  IF k \in Registered THEN [conn[k] EXCEPT !.sq_tx = FALSE] ELSE conn[k]]
    /\ call' = "server_stop_join"
    /\ UNCHANGED <<s_stop_flag, s_listen_addr, s_handle, s_stopping, s_runs,
                   acc, cliVars, nconn>>
    /\ ret' = NoRet
    /\ SockFrame

\* Server::send_msg, line 171: self.tx_map.lock()
ServerSendLock ==
    /\ call = "idle" /\ LockFree
    /\ call' = "server_send_locked"
    /\ UNCHANGED <<srvVars, cliVars, acc, conn, nconn>>
    /\ ret' = NoRet
    /\ SockFrame

\* Server::send_msg, lines 172-179: the lookup and the send on the unbounded
\* channel, which does not wait; the guard is dropped on return and by the
\* unwinding of the panic
ServerSendMsgLocked(addr, m) ==
    /\ call = "server_send_locked"
    /\ IF addr \in DOMAIN s_tx_map
       THEN LET k == s_tx_map[addr] IN
            IF conn[k].swr = "run"
            THEN /\ Len(conn[k].sq) < lim.queue
                 /\ conn' = [conn EXCEPT ![k].sq = Append(@, m)]
                 /\ ret' = SRet("send_msg", "Ok")
                 /\ call' = "idle"
            ELSE /\ call' = "panicked"
                 /\ ret' = SRet("send_msg", "Panic")
                 /\ conn' = conn
       ELSE /\ ret' = SRet("send_msg", "NoSuchClient")
            /\ call' = "idle"
            /\ conn' = conn
    /\ UNCHANGED <<srvVars, cliVars, acc, nconn>>
    /\ SockFrame

\* Server::client_len, line 49: self.tx_map.lock()
ClientLenLock ==
    /\ call = "idle" /\ LockFree
    /\ call' = "client_len_locked"
    /\ UNCHANGED <<srvVars, cliVars, acc, conn, nconn>>
    /\ ret' = NoRet
    /\ SockFrame

\* Server::client_len, line 49: .len(); the guard is a temporary of the
\* expression
ClientLenLocked ==
    /\ call = "client_len_locked"
    /\ call' = "idle"
    /\ ret' = SRet("client_len", Cardinality(DOMAIN s_tx_map))
    /\ UNCHANGED <<srvVars, cliVars, acc, conn, nconn>>
    /\ SockFrame

\* the endpoints over one run and one connection, the lock taken in a step
\* of its own
InitLock ==
    /\ SockInit /\ accepted_nonblocking \in BOOLEAN
    /\ lim \in WithFaults(LiveLimits, LiveLimits)
    /\ CodecQuiet /\ IntQuiet /\ WriteQuiet /\ ReadQuiet

NextLock ==
    \/ \E e \in {"AddrParse", "Io"} : ServerRunFail(e)
    \/ ServerRun
    \/ ServerRunPanic
    \/ ServerStopIdle
    \/ ServerStopBegin
    \/ ServerStopLock
    \/ ServerStopClearLocked
    \/ ServerStopJoin
    \/ ServerSendLock
    \/ \E a \in 1..MaxConns, m \in lim.server_msgs : ServerSendMsgLocked(a, m)
    \/ ClientLenLock
    \/ ClientLenLocked
    \/ \E g \in 1..MaxRuns : AcceptSeesStop(g)
    \/ \E g \in 1..MaxRuns, k \in 1..MaxConns : Accept(g, k)
    \/ \E g \in 1..MaxRuns, k \in 1..MaxConns, spawned \in BOOLEAN :
          AcceptClonePanic(g, k, spawned)
    \/ \E g \in 1..MaxRuns : AcceptLock(g)
    \/ \E g \in 1..MaxRuns : AcceptRegisterLocked(g)
    \/ \E g \in 1..MaxRuns : AcceptIoError(g)
    \/ \E g \in 1..MaxRuns : AcceptJoin(g)
    \/ \E k \in 1..MaxConns : ServerReaderTop(k)
    \/ \E k \in 1..MaxConns : ServerReaderPanic(k)
    \/ \E k \in 1..MaxConns : ServerReaderMsg(k)
    \/ \E k \in 1..MaxConns : ServerReaderEnd(k)
    \/ \E k \in 1..MaxConns : ServerReaderIoError(k)
    \/ \E k \in 1..MaxConns : ServerWriterMsg(k)
    \/ \E k \in 1..MaxConns : ServerWriterEnd(k)
    \/ \E e \in {"AddrParse", "Io"} : ClientRunFail(e)
    \/ ClientRunPanic
    \/ \E g \in 1..MaxRuns, a \in 1..MaxConns : \E req \in {0, a} :
          ClientRunCloneFail(g, req, a)
    \/ \E g \in 1..MaxRuns, a \in 1..MaxConns : \E req \in {0, a} :
          ClientRunCloneFailAfterReader(g, req, a)
    \/ \E g \in 1..MaxRuns, a \in 1..MaxConns : \E req \in {0, a} : ClientRun(g, req, a)
    \/ ClientStopIdle
    \/ ClientStopBegin
    \/ ClientStopTake
    \/ ClientStopJoinReader
    \/ ClientStopJoinWriter
    \/ \E m \in lim.client_msgs : ClientSendMsg(m)
    \/ \E k \in 1..MaxConns : ClientReaderTop(k)
    \/ \E k \in 1..MaxConns : ClientReaderPanic(k)
    \/ \E k \in 1..MaxConns : ClientReaderMsg(k)
    \/ \E k \in 1..MaxConns : ClientReaderEnd(k)
    \/ \E k \in 1..MaxConns : ClientReaderIoError(k)
    \/ \E k \in 1..MaxConns : ClientWriterMsg(k)
    \/ \E k \in 1..MaxConns : ClientWriterEnd(k)

SpecLock == InitLock /\ [][NextLock]_vars

(***************************************************************************)
(* Vocabulary of the properties                                            *)
(***************************************************************************)
\* the schema passes validation
Valid == MessageFormatErr(item_fmts) = NoErr

\* every value of the message sits at a field of its kind
TypeMatched ==
    /\ Len(msg) <= Len(item_fmts)
    /\ \A i \in 1..Len(msg) : KindMatches(item_fmts[i], msg[i])

\* the message has one value per field, each of the field's kind
Aligned == TypeMatched /\ Len(msg) = Len(item_fmts)

\* the field at 0-based index i breaks no rule of ItemFormat::err
FieldClean(i) == ItemErr(item_fmts[i + 1], i, item_fmts) = NoErr

\* resolved length L of field i when encoding msg: the declared width, or
\* the number held by the Len value at len_idx
ResLen(i) ==
    LET f == item_fmts[i + 1] IN
    IF f.kind \in FixedKinds THEN f.len ELSE AsUsize(msg[f.len_idx + 1].v)

\* v is below 2^(8L)
FitsUnsigned(v, L) == \A j \in 1..(SizeOfU64 - L) : v[j] = 0

\* v lies in [-2^(8L-1), 2^(8L-1))
FitsSigned(v, L) ==
    LET fill == IF L > 0 /\ v[SizeOfU64 - L + 1] >= 128 THEN 255 ELSE 0 IN
    \A j \in 1..(SizeOfU64 - L) : v[j] = fill

\* the bytes field i must contribute to encode's output
Slot(i) ==
    LET v == msg[i + 1] L == ResLen(i) IN
    IF v.tag \in {"Len", "Uint", "Int"}
    THEN [j \in 1..L |-> v.v[SizeOfU64 - L + j]]
    ELSE [j \in 1..L |-> IF j <= Len(v.v) THEN v.v[j] ELSE 0]

RECURSIVE Slots(_, _)
\* the slots of fields i .. n-1, back to back
Slots(i, n) == IF i >= n THEN <<>> ELSE Slot(i) \o Slots(i + 1, n)

RECURSIVE SumLens(_, _)
SumLens(i, n) == IF i >= n THEN 0 ELSE ResLen(i) + SumLens(i + 1, n)

RECURSIVE Walk(_, _, _, _)
\* Lay the fields of the schema over buf from field i on, spans holding
\* <<offset, L>> of the fields before i.  k is the first field for which
\* fewer than L bytes remain (-1: every field fits).
Walk(i, pos, spans, b) ==
    IF i >= Len(item_fmts) THEN [k |-> -1, spans |-> spans]
    ELSE LET f == item_fmts[i + 1]
             sp == spans[f.len_idx + 1]
             L == IF f.kind \in FixedKinds THEN f.len
                  ELSE AsUsize(GetUint(SubSeq(b, sp[1] + 1, sp[1] + sp[2])))
         IN IF Len(b) - pos < L THEN [k |-> i, spans |-> spans]
            ELSE Walk(i + 1, pos + L, Append(spans, <<pos, L>>), b)

\* the bytes of buf under a span
Under(sp) == SubSeq(buf, sp[1] + 1, sp[1] + sp[2])

SetMin(S) == CHOOSE x \in S : \A y \in S : x <= y

(***************************************************************************)
(* C1.  Round trip                                                         *)
(***************************************************************************)
\* encode succeeds, and decoding what encode returned gives the message back
RoundTripHolds ==
    /\ (last.op = "encode" => last.r.st = "Ok")
    /\ (buf_src = "encoded" /\ last.op = "decode" => last.r = Ok(msg))

\* the claim's length constraint: a string or byte value is not longer than L
\* (that an integer field is at most 8 bytes wide is part of Valid)
WithinLen(i) ==
    msg[i + 1].tag \in {"String", "Bytes"} => Len(msg[i + 1].v) <= ResLen(i)

\* C1: for a valid schema and a message with one value of the right kind
\* per field whose string and byte values are not longer than their fields'
\* resolved lengths, encode succeeds and decode(encode(message)) is the
\* message.
C1_RoundTrip ==
    (Valid /\ Aligned /\ \A i \in 0..(Len(msg) - 1) : WithinLen(i)) => RoundTripHolds

(***************************************************************************)
(* C2.  Forward and self length references                                 *)
(***************************************************************************)
\* C2: when the first field that breaks a rule is a VarString or VarBytes at
\* position i with len_idx >= i, validation returns LenIdxTooLarge for it,
\* also when len_idx = i.
C2_SelfOrForwardRejected ==
    last.op = "err" =>
        \A i \in 0..(Len(item_fmts) - 1) :
            LET f == item_fmts[i + 1] IN
            (/\ f.kind \in VarKinds
             /\ f.len_idx >= i
             /\ \A j \in 0..(i - 1) : FieldClean(j))
            => last.r.e = LenIdxTooLarge(i, f.len_idx)

(***************************************************************************)
(* C3.  References to a field that is not a Len                            *)
(***************************************************************************)
\* C3 as stated: a schema with a VarString or VarBytes at position i whose
\* len_idx is below i and names a field that is not a Len is rejected with
\* NotALen(i, len_idx).
C3_AsStated ==
    last.op = "err" =>
        \A i \in 0..(Len(item_fmts) - 1) :
            LET f == item_fmts[i + 1] IN
            (/\ f.kind \in VarKinds
             /\ f.len_idx < i
             /\ item_fmts[f.len_idx + 1].kind # "Len")
            => last.r.e = NotALen(i, f.len_idx)

\* C3 (amended): such a schema is rejected, and with NotALen(i, len_idx)
\* when no field before i breaks a rule of validation; when one does, the
\* error is that of the first field that breaks a rule.
C3_NotALenRejected ==
    last.op = "err" =>
        \A i \in 0..(Len(item_fmts) - 1) :
            LET f == item_fmts[i + 1] IN
            (/\ f.kind \in VarKinds
             /\ f.len_idx < i
             /\ item_fmts[f.len_idx + 1].kind # "Len")
            => /\ last.r.e # NoErr
               /\ (\A j \in 0..(i - 1) : FieldClean(j))
                    => last.r.e = NotALen(i, f.len_idx)
               /\ \A j \in 0..(i - 1) :
                    (~FieldClean(j) /\ \A m \in 0..(j - 1) : FieldClean(m))
                    => last.r.e = ItemErr(item_fmts[j + 1], j, item_fmts)

C3_Witness ==
    /\ last.op = "err"
    /\ Len(item_fmts) = 2
    /\ item_fmts[2].kind \in VarKinds /\ item_fmts[2].len_idx = 0
    /\ item_fmts[1].kind = "Uint" /\ item_fmts[1].len = 2
    /\ last.r.e = NotALen(1, 0)

(***************************************************************************)
(* C4.  Declared widths                                                    *)
(***************************************************************************)
\* the first field that breaks a rule of the claim: a declared width of 0,
\* an integer width above 8, or what ItemFormat::err rejects
BreaksWidthRule(i) ==
    LET f == item_fmts[i + 1] IN
    \/ ~FieldClean(i)
    \/ f.kind \in FixedKinds /\ f.len = 0

\* C4: a field of declared width 0 is rejected with LenTooSmall and an
\* integer field wider than 8 with LenTooLarge, each carrying the index of
\* the field, when it is the first field that breaks a rule.
C4_WidthsChecked ==
    last.op = "err" =>
        \A i \in 0..(Len(item_fmts) - 1) :
            LET f == item_fmts[i + 1] IN
            (f.kind \in FixedKinds /\ \A j \in 0..(i - 1) : ~BreaksWidthRule(j))
            => /\ f.len = 0
                    => last.r.e.err = "LenTooSmall" /\ last.r.e.item_idx = i
               /\ (f.kind \in IntegerKinds /\ f.len > 8)
                    => last.r.e.err = "LenTooLarge" /\ last.r.e.item_idx = i

(***************************************************************************)
(* C5.  Validation order and determinism                                   *)
(***************************************************************************)
\* what validation must return: the empty-schema error, the error of the
\* lowest-indexed field that breaks a rule, or nothing
ExpectedErr ==
    LET bad == {i \in 0..(Len(item_fmts) - 1) : ~FieldClean(i)} IN
    IF Len(item_fmts) = 0 THEN MessageFormatEmpty
    ELSE IF bad = {} THEN NoErr
    ELSE ItemErr(item_fmts[SetMin(bad) + 1], SetMin(bad), item_fmts)

\* C5: validation returns the empty-schema error for an empty schema, else
\* the error of the lowest-indexed field that breaks a rule, else nothing;
\* a validation leaves the schema as it was, and validating again returns
\* what the validation before returned.
C5_FirstViolationWins ==
    /\ [](last.op = "err" => last.r.e = ExpectedErr)
    /\ [][/\ last'.op = "err" => item_fmts' = item_fmts
          /\ (last.op = "err" /\ last'.op = "err") => last'.r = last.r]_vars

C5_Witness ==
    /\ last.op = "err"
    /\ Len(item_fmts) = 2
    /\ ~FieldClean(0) /\ ~FieldClean(1)
    /\ ItemErr(item_fmts[1], 0, item_fmts).err # ItemErr(item_fmts[2], 1, item_fmts).err
    /\ last.r.e.item_idx = 0

(***************************************************************************)
(* C6.  Truncated input                                                    *)
(***************************************************************************)
\* C6: decoding, under a valid schema, a buffer that ends before the last
\* field does fails with the end-of-data error; no message comes back.
C6_TruncationFails ==
    (Valid /\ last.op = "decode" /\ Walk(0, 0, <<>>, buf).k >= 0)
    => last.r = Err(Eof)

(***************************************************************************)
(* C8.  What encode emits                                                  *)
(***************************************************************************)
\* C8: a successful encode returns, field after field, exactly L bytes per
\* field: the low L bytes of an integer's big-endian form, the bytes of a
\* string or byte value (followed by zero bytes when it is shorter than L),
\* and nothing else; for a message with a value for every field the length
\* of the output is the sum of the resolved lengths.
C8_EncodeLayout ==
    (last.op = "encode" /\ last.r.st = "Ok")
    => /\ last.r.val = Slots(0, Len(msg))
       /\ Len(msg) = Len(item_fmts) => Len(last.r.val) = SumLens(0, Len(item_fmts))
       /\ (item_fmts = TestFmt /\ msg = TestMsg) => Len(last.r.val) = 29

C8_Witness ==
    /\ last.op = "encode" /\ last.r.st = "Ok"
    /\ item_fmts = TestFmt /\ msg = TestMsg
    /\ Len(last.r.val) = 29

(***************************************************************************)
(* C9.  Errors of encode                                                   *)
(***************************************************************************)
\* field i cannot be written: its string or byte value is longer than L, or
\* it is an integer field wider than 8 bytes
TooLong(i) ==
    /\ FieldClean(i)
    /\ msg[i + 1].tag \in {"String", "Bytes"}
    /\ Len(msg[i + 1].v) > ResLen(i)

TooWide(i) == item_fmts[i + 1].kind \in IntegerKinds /\ item_fmts[i + 1].len > 8

\* C9: encoding a message whose values are of their fields' kinds returns an
\* error and no bytes when a string or byte value is longer than its field's
\* resolved length or an integer field is wider than 8: ValueLenOutOfBound,
\* respectively LenTooLarge, with the index of the first field that cannot
\* be written.
C9_EncodeErrors ==
    (last.op = "encode" /\ TypeMatched) =>
        \A i \in 0..(Len(msg) - 1) :
            (TooLong(i) \/ TooWide(i))
            => /\ last.r.st = "Err" /\ last.r.val = <<>>
               /\ (\A j \in 0..(i - 1) : FieldClean(j) /\ ~TooLong(j))
                    => last.r.e = IF TooWide(i)
                                  THEN LenTooLarge(8, i, item_fmts[i + 1].len)
                                  ELSE ValueLenOutOfBound(ResLen(i), i, Len(msg[i + 1].v))

C9_Witness ==
    /\ last.op = "encode" /\ TypeMatched /\ Len(msg) = 2
    /\ item_fmts[2].kind \in VarKinds
    /\ FieldClean(0) /\ TooLong(1)
    /\ last.r.e = ValueLenOutOfBound(1, 1, 2)

(***************************************************************************)
(* C7.  Sign extension                                                     *)
(***************************************************************************)
\* C7: for an Int field of width L in 1..8 and a value representable in L
\* signed bytes, encode writes the L low bytes of the value's two's
\* complement form, most significant first, and decoding those bytes, from
\* a stream or from a buffer, gives the value again, sign-extended to 64
\* bits (-1 at width 1 is the byte 0xFF and decodes to -1, not 255).
C7_SignExtension ==
    (int_len \in 1..8 /\ FitsSigned(int_val, int_len))
    => /\ int_out # Unset
            => int_out = Ok([j \in 1..int_len |-> int_val[SizeOfU64 - int_len + j]])
       /\ int_in # Unset => int_in = Ok(<<VInt(int_val)>>)
       /\ int_dec # Unset => int_dec = Ok(<<VInt(int_val)>>)
       /\ (int_len = 1 /\ int_val = AllFF /\ int_out # Unset) => int_out.val = <<255>>
       /\ (int_len = 1 /\ int_val = AllFF /\ int_in # Unset) => int_in.val[1].v # U8(255)
       /\ (int_len = 1 /\ int_val = AllFF /\ int_dec # Unset) => int_dec.val[1].v # U8(255)

\* -1 at width 1 was encoded to 0xFF and the byte decoded both ways
C7_Witness ==
    /\ int_len = 1 /\ int_val = AllFF
    /\ int_out = Ok(<<255>>)
    /\ int_in = Ok(<<VInt(AllFF)>>)
    /\ int_dec = Ok(<<VInt(AllFF)>>)

(***************************************************************************)
(* C10.  stop() is synchronous                                             *)
(***************************************************************************)
\* the accept thread of server run g and the reader and writer of every
\* connection it accepted have ended
ServerTasksEnded(g) ==
    /\ acc[g].pc = "done"
    /\ \A k \in 1..MaxConns :
        (conn[k].st = "accepted" /\ conn[k].lis = g)
        => conn[k].srd \in Ended /\ conn[k].swr \in Ended

\* the reader and the writer that Client::run started for connection k have ended
ClientTasksEnded(k) == conn[k].crd \in Ended /\ conn[k].cwr \in Ended

\* C10: when Server::stop returns, the accept thread of the preceding run
\* and every reader and writer it started have ended, and when Client::stop
\* returns, the reader and the writer of the preceding run have ended; as
\* long as the endpoint is not run again none of its threads is running.
C10_StopSynchronous ==
    /\ [][/\ (call = "server_stop_join" /\ call' = "idle")
                => ServerTasksEnded(s_runs)'
          /\ (call = "client_stop_join_writer" /\ call' = "idle")
                => ClientTasksEnded(nconn)']_vars
    /\ []((Alive /\ s_handle = 0 /\ call \notin {"server_stop_clear", "server_stop_join"})
            => /\ \A g \in 1..MaxRuns : acc[g].pc \in {"none"} \cup Ended
               /\ \A k \in 1..MaxConns :
                    /\ conn[k].srd \in {"none"} \cup Ended
                    /\ conn[k].swr \in {"none"} \cup Ended)
    /\ []((Alive /\ c_reader_handle = 0
            /\ call \notin {"client_stop_take", "client_stop_join_reader",
                            "client_stop_join_writer"})
            => \A k \in 1..MaxConns :
                    /\ conn[k].crd \in {"none"} \cup Ended
                    /\ conn[k].cwr \in {"none"} \cup Ended)

C10_Witness ==
    /\ call = "idle" /\ ret = CRet("stop", "Ok")
    /\ s_handle = 0 /\ s_stopping # 0
    /\ \E k \in 1..MaxConns : conn[k].st = "accepted" /\ conn[k].lis = s_stopping
    /\ ServerTasksEnded(s_stopping) /\ ClientTasksEnded(nconn)

(***************************************************************************)
(* C11.  The map is empty once Server::stop has returned                   *)
(***************************************************************************)
\* Server::client_len (lines 48-50)
ClientLen == Cardinality(DOMAIN s_tx_map)

\* Server::stop has taken the handle and cleared the map, and no run followed
ServerStopped == s_handle = 0 /\ call # "server_stop_clear"

\* C11: from the moment Server::stop has cleared the map until the next run,
\* whatever the accept thread does in between, the map is empty (a
\* connection accepted while stop is in progress is not registered); so it
\* is empty when stop returns, client_len() is 0, and a send_msg made then
\* returns NoSuchClient.
C11_MapEmptyAfterStop ==
    /\ ServerStopped => s_tx_map = NoTx /\ ClientLen = 0
    /\ ret = SRet("stop", "Ok") => ServerStopped
    /\ (ServerStopped /\ ret.of = "server" /\ ret.op = "send_msg")
            => ret.r = "NoSuchClient"

\* a send_msg answered NoSuchClient after the stop of a run that had accepted
\* every connection
C11_Witness ==
    /\ call = "idle" /\ s_handle = 0 /\ s_stopping # 0
    /\ acc[s_stopping].pc = "done"
    /\ ret = SRet("send_msg", "NoSuchClient")
    /\ \A k \in 1..SockConns : conn[k].st = "accepted" /\ conn[k].lis = s_stopping
    /\ conn[1].sq_tx = FALSE /\ conn[1].swr = "done"

(***************************************************************************)
(* C12.  Server::send_msg                                                  *)
(***************************************************************************)
\* C12: a send_msg(addr, msg) with addr not a key of the map returns
\* NoSuchClient and changes no queue; with addr a key it appends msg to that
\* peer's queue, changes no other queue and returns Ok.
C12_ServerSendMsg ==
    [][\A a \in 1..MaxConns, m \in lim.server_msgs :
          ServerSendMsg(a, m)
          => IF a \in DOMAIN s_tx_map
             THEN /\ ret' = SRet("send_msg", "Ok")
                  /\ conn' = [conn EXCEPT ![s_tx_map[a]].sq = Append(@, m)]
             ELSE /\ ret' = SRet("send_msg", "NoSuchClient")
                  /\ conn' = conn]_vars

(***************************************************************************)
(* C13.  Client::send_msg                                                  *)
(***************************************************************************)
\* a successful Client::run has not been followed by a stop
ClientConnected == c_writer_handle # 0

\* what Client::send_msg returns
ClientSendReturns ==
    IF ClientConnected THEN CRet("send_msg", "Ok") ELSE CRet("send_msg", "NotConnected")

\* C13: send_msg returns NotConnected before the first successful run and
\* after stop; between a successful run and the next stop it appends the
\* message to the client's queue and returns Ok.
C13_ClientSendMsg ==
    [][\A m \in lim.client_msgs :
          ClientSendMsg(m)
          => /\ ret' = ClientSendReturns
             /\ conn' = IF ClientConnected
                        THEN [conn EXCEPT ![c_tx].cq = Append(@, m)]
                        ELSE conn]_vars

(***************************************************************************)
(* C14.  No queued message is dropped                                      *)
(***************************************************************************)
\* one step of a send queue q and of the socket w its writer writes to:
\* nothing leaves the queue, or its head leaves it and, if it encodes, is
\* written, or the socket has failed, or no message that leaves encodes
QueueStepKeeps(q, w, peer_open) ==
    \/ q' = q
    \/ \E m \in lim.server_msgs \cup lim.client_msgs : q' = Append(q, m)
    \/ q # <<>> /\ q' = Tail(q) /\ (Encodes(Head(q)) => w' = Append(w, Head(q)))
    \/ q # <<>> /\ Encodes(Head(q)) /\ ~peer_open
    \/ \A i \in 1..Len(q) : ~Encodes(q[i])

\* C14: a message that send_msg queued and that encodes leaves its queue
\* only by being written to the connection's socket, unless a socket write
\* has failed; in particular a writer does not end, at stop or before, with
\* such a message still queued.
C14_NoMessageDropped ==
    [][\A k \in 1..MaxConns :
          /\ QueueStepKeeps(conn[k].sq, conn[k].s2c, ClientSideOpen(k))
          /\ QueueStepKeeps(conn[k].cq, conn[k].c2s, ServerSideOpen(k))
          /\ (conn[k].swr = "run" /\ conn'[k].swr \in Ended /\ ClientSideOpen(k))
                => \A i \in 1..Len(conn[k].sq) : ~Encodes(conn[k].sq[i])
          /\ (conn[k].cwr = "run" /\ conn'[k].cwr \in Ended /\ ServerSideOpen(k))
                => \A i \in 1..Len(conn[k].cq) : ~Encodes(conn[k].cq[i])]_vars

(***************************************************************************)
(* C15.  Order within one connection                                       *)
(***************************************************************************)
\* one step of a send queue q, of the socket w its writer writes to, of
\* that writer wr and of the reader rd at the other end: a message enters
\* the queue at its tail; the queue loses its head, or all it holds when
\* the writer ends; the socket gains only the head of the queue, whole and
\* at its tail, from the running writer, and loses only its own head, to
\* the reader
InOrderStep(q, w, wr, rd) ==
    /\ q' # q
        => \/ \E m \in lim.server_msgs \cup lim.client_msgs : q' = Append(q, m)
           \/ q # <<>> /\ q' = Tail(q)
           \/ q' = <<>> /\ wr = "run" /\ wr' \in Ended
    /\ w' # w
        => \/ /\ wr = "run" /\ q # <<>>
              /\ w' = Append(w, Head(q)) /\ q' = Tail(q)
           \/ /\ rd = "reading" /\ rd' = "top"
              /\ w # <<>> /\ w' = Tail(w) /\ q' = q

\* C15: on every connection and in both directions, messages are written
\* to the socket in the order send_msg queued them, one whole message at a
\* time and by the one writer of that socket, and the reader takes them in
\* the order they arrived.
C15_InOrder ==
    [][\A k \in 1..MaxConns :
          /\ InOrderStep(conn[k].sq, conn[k].s2c, conn[k].swr, conn[k].crd)
          /\ InOrderStep(conn[k].cq, conn[k].c2s, conn[k].cwr, conn[k].srd)]_vars

\* two different messages on their way to the client, the reader waiting
C15_Witness ==
    /\ conn[1].s2c = <<"m", "n">>
    /\ conn[1].crd = "reading"
    /\ conn[1].swr = "run" /\ conn[1].sq = <<"m">>

(***************************************************************************)
(* C16.  The first peer is registered under the client's address           *)
(***************************************************************************)
\* the accept thread of run g registers the connection the client is
\* running on, the server having no peers
RegistersFirstPeer(g) ==
    /\ AcceptRegister(g)
    /\ ~s_stop_flag /\ s_tx_map = NoTx
    /\ ClientConnected /\ acc[g].cur = c_writer_handle

\* C16: when the accept thread of a server with no peers registers the
\* connection of the running client, client_len() goes from 0 to 1, the one
\* key of the map is the address bind_addr() reports, and the peer's writer
\* is waiting on an empty queue; a send_msg to bind_addr() made while that
\* writer runs is queued and returns Ok.
C16_FirstPeerRegistered ==
    [][/\ \A g \in 1..MaxRuns :
            RegistersFirstPeer(g)
            => /\ ClientLen = 0 /\ ClientLen' = 1
               /\ c_bind_addr' # 0 /\ DOMAIN s_tx_map' = {c_bind_addr'}
               /\ conn'[s_tx_map'[c_bind_addr']].swr = "run"
               /\ conn'[s_tx_map'[c_bind_addr']].sq = <<>>
       /\ \A m \in lim.server_msgs :
            (ServerSendMsg(c_bind_addr, m) /\ c_bind_addr \in DOMAIN s_tx_map
                /\ conn[s_tx_map[c_bind_addr]].swr = "run")
            => /\ ret' = SRet("send_msg", "Ok")
               /\ conn'[s_tx_map[c_bind_addr]].sq
                    = Append(conn[s_tx_map[c_bind_addr]].sq, m)]_vars

\* the server's only peer is the client's second connection, and a send_msg
\* to the client's address has just returned Ok
C16_Witness ==
    /\ c_bind_addr = SockConns /\ DOMAIN s_tx_map = {c_bind_addr} /\ ClientLen = 1
    /\ ret = SRet("send_msg", "Ok")
    /\ conn[s_tx_map[c_bind_addr]].sq = <<"m">>

(***************************************************************************)
(* C17.  A failing run leaves the endpoint idle                            *)
(***************************************************************************)
\* the step is a run of the endpoint returning an error
RunFailed(of) == ret'.of = of /\ ret'.op = "run" /\ ret'.r \in {"AddrParse", "Io"}

\* C17: a step in which Server::run or Client::run returns an error starts
\* no thread of that endpoint, leaves its address None and its handles
\* empty, and leaves the map, respectively the queue, as it was, so that
\* send_msg answers as before.
C17_FailedRunLeavesIdle ==
    [][/\ RunFailed("server")
            => /\ s_listen_addr' = 0 /\ s_handle' = 0 /\ s_tx_map' = s_tx_map
               /\ acc' = acc
               /\ \A k \in 1..MaxConns :
                    conn'[k].srd = conn[k].srd /\ conn'[k].swr = conn[k].swr
       /\ RunFailed("client")
            => /\ c_bind_addr' = 0 /\ c_tx' = c_tx
               /\ c_reader_handle' = 0 /\ c_writer_handle' = 0
               /\ \A k \in 1..MaxConns :
                    /\ conn'[k].crd = conn[k].crd /\ conn'[k].cwr = conn[k].cwr
                    /\ conn'[k].cq = conn[k].cq]_vars

(***************************************************************************)
(* C18.  A message that does not encode puts nothing on the socket         *)
(***************************************************************************)
\* the bytes of a message on the socket: its encoding, or none if it has none
BytesOf(values) ==
    LET r == Encode(item_fmts, values, Granting) IN IF r.st = "Ok" THEN r.val ELSE <<>>

\* the encodings of the first n messages of the outbox, back to back
RECURSIVE BackToBack(_)
BackToBack(n) == IF n = 0 THEN <<>> ELSE BackToBack(n - 1) \o BytesOf(outbox[n])

\* C18: a write_to of a message whose encoding fails returns encode's error
\* and leaves the stream as it was, so that, as long as no write to the
\* socket has failed, the stream is the encodings of the messages that
\* encode, complete and back to back in the order written.
C18_FailedEncodeWritesNothing ==
    /\ [][(wpos' = wpos + 1 /\ Encode(item_fmts, outbox[wpos'], Granting).st # "Ok")
            => /\ stream' = stream
               /\ last' = [op |-> "write_to", r |-> Encode(item_fmts, outbox[wpos'], Granting)]]_vars
    /\ [](last.r.e # IoError => stream = BackToBack(wpos))

\* two messages written, of which the first failed at its second field,
\* its first field having an encoding, and the second went out whole
C18_Witness ==
    /\ wpos = 2 /\ last = [op |-> "write_to", r |-> Ok(<<>>)]
    /\ Len(outbox[1]) = 2
    /\ Encode(item_fmts, outbox[1], Granting).st = "Err"
    /\ Encode(item_fmts, SubSeq(outbox[1], 1, 1), Granting) \notin {Ok(<<>>), Err(NoErr)}
    /\ Encode(item_fmts, SubSeq(outbox[1], 1, 1), Granting).st = "Ok"
    /\ stream = Encode(item_fmts, outbox[2], Granting).val /\ stream # <<>>

(***************************************************************************)
(* C19.  stop on an endpoint that is not running                           *)
(***************************************************************************)
\* the step is a stop of the endpoint, called while it is not running
StopCalledIdle(of) ==
    /\ call = "idle"
    /\ IF of = "server" THEN s_handle = 0 ELSE ~ClientConnected
    /\ ret'.of = of /\ ret'.op = "stop"

\* C19: a stop called on an endpoint that is not running (never run with
\* success, or stopped since) panics, and it neither sets the stop flag nor
\* clears the map or takes the queue nor resets the address; no teardown
\* begins on such an endpoint.
C19_StopWhenIdleAborts ==
    [][/\ StopCalledIdle("server")
            => /\ ret'.r = "Panic" /\ call' = "panicked"
               /\ UNCHANGED <<s_stop_flag, s_tx_map, s_listen_addr>>
       /\ StopCalledIdle("client")
            => /\ ret'.r = "Panic" /\ call' = "panicked"
               /\ UNCHANGED <<c_stop_flag, c_tx, c_bind_addr>>
       /\ (call = "idle" /\ s_handle = 0) => call' # "server_stop_clear"
       /\ (call = "idle" /\ ~ClientConnected) => call' # "client_stop_take"]_vars

\* a second stop of a server whose first stop had returned, after a first
\* run that had accepted a connection
C19_Witness ==
    /\ call = "panicked" /\ ret = SRet("stop", "Panic")
    /\ s_handle = 0 /\ s_stopping # 0 /\ acc[s_stopping].pc = "done"
    /\ s_stop_flag /\ s_listen_addr = 0 /\ s_tx_map = NoTx
    /\ conn[1].st = "accepted" /\ conn[1].lis = 1

(***************************************************************************)
(* C20.  stop returns although the peer is silent                          *)
(***************************************************************************)
\* the caller is inside Server::stop, respectively Client::stop
InServerStop == call \in {"server_stop_clear", "server_stop_join"}
InClientStop == call \in {"client_stop_take", "client_stop_join_reader",
                          "client_stop_join_writer"}

\* no message is queued or on its way on any connection
Silent ==
    \A k \in 1..MaxConns :
        conn[k].sq = <<>> /\ conn[k].cq = <<>> /\ conn[k].c2s = <<>> /\ conn[k].s2c = <<>>

\* C20: with the threads scheduled, a stop that has begun while nothing is
\* being sent comes to its end, the peer connected or not: every reader
\* that waits for data sees the flag in bounded time and ends.
C20_StopReturns ==
    /\ (InServerStop /\ Silent) ~> ~InServerStop
    /\ (InClientStop /\ Silent) ~> ~InClientStop

(***************************************************************************)
(* C21.  A reader whose read fails                                         *)
(***************************************************************************)
\* every thread of the endpoints other than the two readers of connection k
\* is where it was
OtherTasksKept(k) ==
    /\ acc' = acc
    /\ conn'[k].swr = conn[k].swr /\ conn'[k].cwr = conn[k].cwr
    /\ \A j \in 1..MaxConns \ {k} : conn'[j] = conn[j]

\* C21: a reader ends on the end of the stream and on a stop it has seen;
\* on any other error of its read it ends too, and the accept thread and
\* the threads of the other connections go on as they were.
C21_ReaderEndsOnIoError ==
    [][\A k \in 1..MaxConns :
          /\ (ServerReaderEnd(k) \/ ServerReaderIoError(k))
                => conn'[k].srd = "done" /\ OtherTasksKept(k)
          /\ (ClientReaderEnd(k) \/ ClientReaderIoError(k))
                => conn'[k].crd = "done" /\ OtherTasksKept(k)]_vars

(***************************************************************************)
(* C22.  What ends a writer                                                *)
(***************************************************************************)
\* the writer of queue q ends in this step for one of the two reasons it
\* may end for: every Sender is gone and the queue is empty, or the write
\* of a message that encodes failed on the socket
WriterMayEnd(q, has_tx, peer_open) ==
    \/ q = <<>> /\ ~has_tx
    \/ q # <<>> /\ Encodes(Head(q)) /\ ~peer_open

\* C22: a writer ends only when its queue is closed or a write to the
\* socket fails; a message that does not encode leaves the writer running
\* and the messages queued behind it in the queue.
C22_WriterEndsOnlyOnCloseOrIo ==
    [][\A k \in 1..MaxConns :
          /\ (conn[k].swr = "run" /\ conn'[k].swr \in Ended)
                => WriterMayEnd(conn[k].sq, conn[k].sq_tx, ClientSideOpen(k))
          /\ (conn[k].cwr = "run" /\ conn'[k].cwr \in Ended)
                => WriterMayEnd(conn[k].cq, conn[k].cq_tx, ServerSideOpen(k))
          /\ (ServerWriterMsg(k) /\ ~Encodes(Head(conn[k].sq)))
                => conn'[k].swr = "run" /\ conn'[k].sq = Tail(conn[k].sq)
          /\ (ClientWriterMsg(k) /\ ~Encodes(Head(conn[k].cq)))
                => conn'[k].cwr = "run" /\ conn'[k].cq = Tail(conn[k].cq)]_vars

\* the encodings of the first n messages read, back to back
RECURSIVE ReadBackToBack(_)
ReadBackToBack(n) == IF n = 0 THEN <<>> ELSE ReadBackToBack(n - 1) \o BytesOf(inbox[n])

\* C23: however the bytes of the stream are split in time, the reader stays
\* in step with the writer: the bytes it has taken from the socket are
\* exactly those of the messages it has returned followed by those of the
\* fields it has read of the next one, none lost and none read twice.
C23_ReaderInStep ==
    ReadBackToBack(Len(inbox)) \o BytesOf(rx_values) = SubSeq(stream, 1, taken)


\* a thread stands at lock(), in the calling thread or in an accept thread
WaitsForLock ==
    \/ call = "server_stop_clear"
    \/ \E g \in 1..MaxRuns : acc[g].pc = "reg"

\* the thread holding the guard can do what it took it for, and let it go,
\* as the next thing it does: it waits for no socket, queue or thread
HolderCanRelease ==
    /\ call = "server_stop_locked" => ENABLED ServerStopClearLocked
    /\ call = "server_send_locked"
          => ENABLED (\E a \in 1..MaxConns, m \in lim.server_msgs : ServerSendMsgLocked(a, m))
    /\ call = "client_len_locked" => ENABLED ClientLenLocked
    /\ \A g \in 1..MaxRuns : acc[g].pc = "locked" => ENABLED AcceptRegisterLocked(g)

\* C24: the lock on the map is held for one lookup, insert or clear only:
\* while the program runs, a thread that holds it can always go on to
\* release it without waiting for a socket, a queue or a join, so a thread
\* standing at the lock in stop(), send_msg(), client_len() or the accept
\* loop is never kept there for good.
C24_LockNeverHeldBlocked ==
    Alive => /\ HolderCanRelease
             /\ (WaitsForLock /\ ~LockFree) => ENABLED (ServerStopClearLocked
                    \/ ClientLenLocked
                    \/ (\E g \in 1..MaxRuns : AcceptRegisterLocked(g))
                    \/ (\E a \in 1..MaxConns, m \in lim.server_msgs :
                            ServerSendMsgLocked(a, m)))

\* stop() holds the lock while the accept thread stands at it with a
\* connection to register
C24_Witness ==
    /\ call = "server_stop_locked"
    /\ \E g \in 1..MaxRuns : acc[g].pc = "reg"


\* the loop of encode, of decode and of read_from stands at field idx: the
\* fields before it went through
EncodeReaches(idx) ==
    /\ idx < Min(Len(item_fmts), Len(msg))
    /\ Encode(item_fmts, SubSeq(msg, 1, idx), Granting).st = "Ok"

DecodeReaches(idx) ==
    /\ idx < Len(item_fmts)
    /\ Decode(SubSeq(item_fmts, 1, idx), buf, ovf_checks, Granting).st = "Ok"

ReadFromReaches(idx) ==
    /\ idx < Len(item_fmts)
    /\ ReadFrom(SubSeq(item_fmts, 1, idx), buf, ovf_checks, Granting).st = "Ok"

\* len_by_idx finds a Len value for the field at idx among the values
LookupOk(idx, values) == LenByIdx(item_fmts[idx + 1].len_idx, values).st = "Ok"

\* C25: with a validated schema, wherever encode, decode or read_from
\* reaches a VarString or VarBytes field, the value at its len_idx is there
\* and is a Len value: len_by_idx does not fail.
C25_LookupSucceeds ==
    Valid => \A idx \in 0..(Len(item_fmts) - 1) :
        item_fmts[idx + 1].kind \in VarKinds =>
            /\ EncodeReaches(idx) => LookupOk(idx, msg)
            /\ DecodeReaches(idx) =>
                  LookupOk(idx, Decode(SubSeq(item_fmts, 1, idx), buf, ovf_checks, Granting).val)
            /\ ReadFromReaches(idx) =>
                  LookupOk(idx, ReadFrom(SubSeq(item_fmts, 1, idx), buf, ovf_checks, Granting).val)

\* a message with a variable-length field was encoded, and its bytes were
\* decoded field by field up to and past that field
C25_Witness ==
    /\ Valid /\ Len(item_fmts) = 2 /\ item_fmts[2].kind \in VarKinds
    /\ EncodeReaches(1) /\ DecodeReaches(1) /\ ReadFromReaches(1)
    /\ Encode(item_fmts, msg, Granting).st = "Ok"
    /\ last.op = "read_from" /\ last.r.st = "Ok"


\* the field at idx takes its length from the field at len_idx
VarAt(idx) == idx < Len(item_fmts) /\ item_fmts[idx + 1].kind \in VarKinds

\* C26: length resolution fails with an error value and never aborts: in
\* decode, a VarString/VarBytes field whose len_idx has no value yet gives
\* LenIdxTooLarge and one whose len_idx holds another kind of field gives
\* NotALen; an encode of a message that holds another kind of value where
\* the schema has the Len field returns an error.
C26_LengthResolutionErrors ==
    \A idx \in 0..(MaxFields - 1) : VarAt(idx) =>
        LET len_idx == item_fmts[idx + 1].len_idx IN
        /\ (last.op = "decode" /\ DecodeReaches(idx)) =>
              /\ len_idx >= idx => last.r = Err(LenIdxTooLarge(idx, len_idx))
              /\ (len_idx < idx /\ item_fmts[len_idx + 1].kind # "Len")
                    => last.r = Err(NotALen(idx, len_idx))
        /\ (/\ last.op = "encode" /\ idx < Len(msg) /\ len_idx < idx
            /\ item_fmts[len_idx + 1].kind = "Len" /\ msg[len_idx + 1].tag # "Len"
            /\ EncodeReaches(len_idx))
              => last.r.st = "Err"


\* no thread of an earlier session of the endpoint is running
NoServerTask ==
    /\ \A g \in 1..MaxRuns : acc[g].pc \in {"none"} \cup Ended
    /\ \A k \in 1..MaxConns :
        conn[k].srd \in {"none"} \cup Ended /\ conn[k].swr \in {"none"} \cup Ended

NoClientTask ==
    \A k \in 1..MaxConns :
        conn[k].crd \in {"none"} \cup Ended /\ conn[k].cwr \in {"none"} \cup Ended

\* C27: a run() that returns Ok after a stop() that returned finds no
\* thread of an earlier session running and, at the server, an empty map;
\* it leaves the stop flag false and the endpoint running.
C27_RunAfterStop ==
    [][/\ (ret' = SRet("run", "Ok") /\ s_stopping # 0)
            => /\ NoServerTask /\ s_tx_map = NoTx
               /\ s_tx_map' = NoTx /\ ~s_stop_flag' /\ s_handle' # 0
       /\ (ret' = CRet("run", "Ok") /\ c_stopping # <<0, 0>> /\ c_reader_handle = 0)
            => /\ NoClientTask
               /\ ~c_stop_flag' /\ c_writer_handle' # 0]_vars


\* C28: every connection registered in the server's map has its writer
\* thread running, so that no send_msg to a registered address ends in a
\* panic on a closed queue.
C28_EntryHasWriter ==
    /\ \A k \in Registered : conn[k].swr = "run"
    /\ ret # SRet("send_msg", "Panic")


\* every Int field of the schema has a width of at least one byte
IntWidthsFrom1 ==
    \A i \in 1..Len(item_fmts) : item_fmts[i].kind = "Int" => item_fmts[i].len >= 1

\* read_from was called on a stream delivering the bytes of the buffer, which
\* hold a complete message of the validated schema
ReadWholeMessage ==
    /\ Valid /\ IntWidthsFrom1
    /\ last.op = "read_from"
    /\ (last.r.st = "Ok" \/ Decode(item_fmts, buf, ovf_checks, Granting).st = "Ok")

\* C29: read_from over a stream delivering the bytes of one complete
\* message returns what decode returns on the same bytes, whatever the
\* field kinds and the Int widths from 1 to 8.
C29_DecodersAgree ==
    ReadWholeMessage => last.r = Decode(item_fmts, buf, ovf_checks, Granting)

\* a negative one-byte Int read from a stream and decoded from the buffer
C29_Witness ==
    /\ ReadWholeMessage
    /\ item_fmts[1] = FInt(1) /\ buf[1] = 255
    /\ last.r.st = "Ok" /\ last.r.val[1] = VInt(AllFF)
    /\ Decode(item_fmts, buf, ovf_checks, Granting).val[1] = VInt(AllFF)


\* C30: a decode that succeeds returns one value per field, each of the
\* variant of its field's kind, and would return the same with more bytes
\* after the last field; an encode that succeeds was given a value for
\* every field of the format.
C30_PositionallyAligned ==
    /\ (last.op = "decode" /\ last.r.st = "Ok")
          => /\ Len(last.r.val) = Len(item_fmts)
             /\ \A i \in 1..Len(item_fmts) : KindMatches(item_fmts[i], last.r.val[i])
             /\ last.r = Decode(item_fmts, buf \o <<0>>, ovf_checks, Granting)
    /\ (last.op = "encode" /\ last.r.st = "Ok") => Len(msg) >= Len(item_fmts)

====
